---- MODULE Spec2Model ----
(***************************************************************************)
(* Model of the query pipeline of query-flow/back-end:                     *)
(*   - the SQL guardrail proteger_sql_singledb (app/pipeline/sql/          *)
(*     protector.py), computed on character sequences as the regular       *)
(*     expressions of the source compute it;                               *)
(*   - the clarification store (app/repositories/                          *)
(*     clarification_repository.py);                                       *)
(*   - the orchestrator QueryService (app/services/query_service.py).      *)
(* A text is a sequence of one-character strings.                          *)
(***************************************************************************)
EXTENDS Integers, Sequences, FiniteSets, TLC

\* ------------------------------------------------------------------------
\* Characters and the string primitives the guardrail uses
\* ------------------------------------------------------------------------

UpperChars == <<"A", "B", "C", "D", "E", "F", "G", "H", "I", "J", "K", "L", "M", "N", "O", "P", "Q", "R", "S", "T", "U", "V", "W", "X", "Y", "Z">>

LowerChars == <<"a", "b", "c", "d", "e", "f", "g", "h", "i", "j", "k", "l", "m", "n", "o", "p", "q", "r", "s", "t", "u", "v", "w", "x", "y", "z">>

DigitChars == <<"0", "1", "2", "3", "4", "5", "6", "7", "8", "9">>

Range(f) == {f[i] : i \in DOMAIN f}

UpperSet == Range(UpperChars)

LowerMap == [c \in UpperSet |-> LowerChars[CHOOSE i \in 1..26 : UpperChars[i] = c]]

\* str.lower() on one character (ASCII)
lower(c) == IF c \in UpperSet THEN LowerMap[c] ELSE c

\* str.lower()
str_lower(s) == [i \in 1..Len(s) |-> lower(s[i])]

\* the class [a-zA-Z0-9_], which is also \w on the characters modelled
IdentChars == UpperSet \cup Range(LowerChars) \cup Range(DigitChars) \cup {"_"}

IsWordChar(c) == c \in IdentChars

\* the class \s, and the characters str.strip() removes
IsSpace(c) == c \in {" ", "\t", "\n", "\r"}

\* the backtick character (a backtick cannot be written in a string literal)
BACKTICK == "<backtick>"

\* the class of the two quote characters, backtick and double quote
IsQuote(c) == c \in {BACKTICK, "\""}

\* \b at the gap before position i (1 .. Len(s)+1)
WordBoundary(s, i) ==
    ((i > 1) /\ IsWordChar(s[i - 1])) # ((i <= Len(s)) /\ IsWordChar(s[i]))

\* the literal w matches s at position i, ignoring case (re.I)
MatchesAt(s, i, w) ==
    /\ i + Len(w) - 1 <= Len(s)
    /\ \A k \in 1..Len(w) : lower(s[i + k - 1]) = lower(w[k])

\* re.search(r"\b(w1|w2|...)\b", s, re.I) is not None
SearchWord(s, words) ==
    \E i \in 1..Len(s) : \E w \in words :
        /\ MatchesAt(s, i, w)
        /\ WordBoundary(s, i)
        /\ WordBoundary(s, i + Len(w))

\* ------------------------------------------------------------------------
\* proteger_sql_singledb
\* ------------------------------------------------------------------------

SQL_PERIGOSO_NoDrop ==
    { <<"I", "N", "S", "E", "R", "T">>, <<"U", "P", "D", "A", "T", "E">>,
      <<"D", "E", "L", "E", "T", "E">>, <<"M", "E", "R", "G", "E">>,
      <<"A", "L", "T", "E", "R">>, <<"C", "R", "E", "A", "T", "E">>,
      <<"T", "R", "U", "N", "C", "A", "T", "E">>, <<"G", "R", "A", "N", "T">>,
      <<"R", "E", "V", "O", "K", "E">> }

SQL_PERIGOSO ==
    { <<"I", "N", "S", "E", "R", "T">>, <<"U", "P", "D", "A", "T", "E">>,
      <<"D", "E", "L", "E", "T", "E">>, <<"M", "E", "R", "G", "E">>,
      <<"A", "L", "T", "E", "R">>, <<"D", "R", "O", "P">>,
      <<"C", "R", "E", "A", "T", "E">>, <<"T", "R", "U", "N", "C", "A", "T", "E">>,
      <<"G", "R", "A", "N", "T">>, <<"R", "E", "V", "O", "K", "E">> }

SYSTEM_SCHEMAS ==
    { <<"i", "n", "f", "o", "r", "m", "a", "t", "i", "o", "n", "_", "s", "c", "h", "e", "m", "a">>,
      <<"p", "e", "r", "f", "o", "r", "m", "a", "n", "c", "e", "_", "s", "c", "h", "e", "m", "a">>,
      <<"m", "y", "s", "q", "l">>,
      <<"s", "y", "s">> }

\* first index >= i that holds no whitespace (Len(s)+1 when there is none)
RECURSIVE SkipSpaces(_, _)
SkipSpaces(s, i) ==
    IF i <= Len(s) /\ IsSpace(s[i]) THEN SkipSpaces(s, i + 1) ELSE i

\* first index >= i that holds no [a-zA-Z0-9_]
RECURSIVE IdentEnd(_, _)
IdentEnd(s, i) ==
    IF i <= Len(s) /\ s[i] \in IdentChars THEN IdentEnd(s, i + 1) ELSE i

\* an optional quote at i: the index after it
SkipQuote(s, i) == IF i <= Len(s) /\ IsQuote(s[i]) THEN i + 1 ELSE i

\* Q?[a-zA-Z0-9_]+Q? at i (Q the quote class): the index after the match,
\* 0 when it fails
NamePartEnd(s, i) ==
    LET a == SkipQuote(s, i)
        b == IdentEnd(s, a)
    IN  IF b = a THEN 0 ELSE SkipQuote(s, b)

\* ((?:Q?[a-zA-Z0-9_]+Q?\.)?Q?[a-zA-Z0-9_]+Q?) at i:
\* the index after the group, 0 when it fails.  The qualifier is tried first
\* (greedy) and given up when no name part follows its dot.
RefGroupEnd(s, i) ==
    LET c == NamePartEnd(s, i)
        q == IF c # 0 /\ c <= Len(s) /\ s[c] = "." THEN NamePartEnd(s, c + 1) ELSE 0
    IN  IF q # 0 THEN q ELSE c

\* where the group of (?:from|join)\s+(...) starts for a match at i, 0 if none
RefGroupStart(s, i) ==
    IF /\ (MatchesAt(s, i, <<"f", "r", "o", "m">>) \/ MatchesAt(s, i, <<"j", "o", "i", "n">>))
       /\ i + 4 <= Len(s)
       /\ IsSpace(s[i + 4])
    THEN LET k == SkipSpaces(s, i + 4)
         IN  IF RefGroupEnd(s, k) # 0 THEN k ELSE 0
    ELSE 0

\* re.findall(...): the groups of the non-overlapping matches, left to right
RECURSIVE FindRefs(_, _)
FindRefs(s, i) ==
    IF i > Len(s) THEN <<>>
    ELSE LET k == RefGroupStart(s, i)
         IN  IF k = 0 THEN FindRefs(s, i + 1)
             ELSE LET e == RefGroupEnd(s, k)
                  IN  <<SubSeq(s, k, e - 1)>> \o FindRefs(s, e)

\* r.strip(quotes)
RECURSIVE StripQuotes(_)
StripQuotes(r) ==
    IF r = <<>> THEN r
    ELSE IF IsQuote(r[1]) THEN StripQuotes(Tail(r))
    ELSE IF IsQuote(r[Len(r)]) THEN StripQuotes(SubSeq(r, 1, Len(r) - 1))
    ELSE r

\* the value None of split_ref's first component
NoDb == <<>>

\* split_ref(r): (db, tb), both lower-cased
split_ref(r0) ==
    LET r    == StripQuotes(r0)
        dots == {i \in 1..Len(r) : r[i] = "."}
        d1   == IF dots = {} THEN Len(r) + 1
                ELSE CHOOSE i \in dots : \A j \in dots : i <= j
    IN  IF Cardinality(dots) = 1
        THEN [db |-> str_lower(SubSeq(r, 1, d1 - 1)), tb |-> str_lower(SubSeq(r, d1 + 1, Len(r)))]
        ELSE [db |-> NoDb, tb |-> str_lower(SubSeq(r, 1, d1 - 1))]

\* str(n) for n >= 0
RECURSIVE IntToStr(_)
IntToStr(n) ==
    IF n < 10 THEN <<DigitChars[n + 1]>>
    ELSE IntToStr(n \div 10) \o <<DigitChars[(n % 10) + 1]>>

\* sql.strip().endswith(";")
RECURSIVE StripEndsWithSemicolon(_)
StripEndsWithSemicolon(s) ==
    IF s = <<>> THEN FALSE
    ELSE IF IsSpace(s[Len(s)]) THEN StripEndsWithSemicolon(SubSeq(s, 1, Len(s) - 1))
    ELSE s[Len(s)] = ";"

WithLimitAndTerminator_AlwaysAppend(sql, max_linhas) ==
    LET s1 == sql \o <<"\n", "L", "I", "M", "I", "T", " ">> \o IntToStr(max_linhas)
    IN  IF ~StripEndsWithSemicolon(s1) THEN s1 \o <<";">> ELSE s1

\* the statement with LIMIT and terminator added where missing (lines 79-87)
WithLimitAndTerminator(sql, max_linhas) ==
    LET s1 == IF ~SearchWord(sql, {<<"l", "i", "m", "i", "t">>})
              THEN sql \o <<"\n", "L", "I", "M", "I", "T", " ">> \o IntToStr(max_linhas)
              ELSE sql
    IN  IF ~StripEndsWithSemicolon(s1) THEN s1 \o <<";">> ELSE s1

Raise(d) == [ok |-> FALSE, detail |-> d, sql |-> <<>>]

Return(s) == [ok |-> TRUE, detail |-> "", sql |-> s]

\* proteger_sql_singledb(sql, catalog, db_name, max_linhas); catalog is the
\* key set of catalog["tables"]
proteger_sql_singledb(sql, catalog, db_name, max_linhas) ==
    LET refs  == FindRefs(sql, 1)
        split == [i \in 1..Len(refs) |-> split_ref(refs[i])]
        dbl   == str_lower(db_name)
        other_dbs ==
            {split[i].db : i \in {j \in 1..Len(refs) :
                /\ split[j].db # NoDb
                /\ split[j].db # dbl
                /\ split[j].db \notin SYSTEM_SCHEMAS}}
        tables_used ==
            {split[i].tb : i \in {j \in 1..Len(refs) :
                split[j].db = NoDb \/ split[j].db = dbl}}
        known   == {str_lower(k) : k \in catalog}
        unknown == {t \in tables_used : t \notin known}
    IN  IF SearchWord(sql, SQL_PERIGOSO) THEN Raise("WriteDDL")
        ELSE IF other_dbs # {} THEN Raise("MultiDB")
        ELSE IF unknown # {} THEN Raise("TableNotFound")
        ELSE Return(WithLimitAndTerminator(sql, max_linhas))

\* ------------------------------------------------------------------------
\* The schemas of the organisation and their catalogs
\* ------------------------------------------------------------------------

Schemas == {"db", "dw"}

SchemaName == ("db" :> <<"d", "b">>) @@ ("dw" :> <<"d", "w">>)

\* catalog_for_current_db(conn, db_name)["tables"].keys()
CatalogOf == ("db" :> {<<"T", "1">>}) @@ ("dw" :> {<<"T", "1">>, <<"t", "9">>})

\* ------------------------------------------------------------------------
\* Inputs of the guardrail: texts assembled from lexical pieces
\* ------------------------------------------------------------------------

MaxPieces == 4

Pieces ==
    { <<"s", "e", "l", "e", "c", "t", " ", "*", " ", "f", "r", "o", "m", " ">>,
      <<"T", "1">>,
      <<"t", "9">>,
      <<",", " ">>,
      <<" ", "J", "o", "i", "n", " ">>,
      <<"d", "b", ".">>,
      <<"e", "x", "t", ".">>,
      <<" ", "l", "i", "m", "i", "t", " ", "5">>,
      <<";">>,
      <<"D", "r", "O", "p">> }

\* the (schema, max_linhas) pairs the guardrail is called with
GuardCalls == {<<"db", 100>>, <<"dw", 7>>}

\* texts placed before and after a keyword
Prefixes ==
    { <<>>,
      <<"s", "e", "l", "e", "c", "t", " ", "*", " ", "f", "r", "o", "m", " ", "T", "1", " ">>,
      <<"s", "e", "l", "e", "c", "t", " ", "(">>,
      <<"s", "e", "l", "e", "c", "t", " ", "x">>,
      <<"s", "e", "l", "e", "c", "t", " ", "a", "_">>,
      <<"s", "e", "l", "e", "c", "t", " ", "1", ";", "\n">> }

Suffixes ==
    { <<>>,
      <<" ", "f", "r", "o", "m", " ", "T", "1", " ", "l", "i", "m", "i", "t", " ", "5", ";">>,
      <<")">>,
      <<"d">>,
      <<"_", "a", "t", " ", "f", "r", "o", "m", " ", "T", "1">>,
      <<";">> }

\* the ten write/DDL words, as the inputs spell them
KeywordTexts ==
    { <<"I", "N", "S", "E", "R", "T">>, <<"U", "P", "D", "A", "T", "E">>,
      <<"D", "E", "L", "E", "T", "E">>, <<"M", "E", "R", "G", "E">>,
      <<"A", "L", "T", "E", "R">>, <<"D", "R", "O", "P">>,
      <<"C", "R", "E", "A", "T", "E">>, <<"T", "R", "U", "N", "C", "A", "T", "E">>,
      <<"G", "R", "A", "N", "T">>, <<"R", "E", "V", "O", "K", "E">> }

CaseStyles == {"upper", "lower", "mixed"}

\* the keyword w written in one of the letter cases
InCase(w, style) ==
    [i \in 1..Len(w) |->
        IF style = "lower" \/ (style = "mixed" /\ i % 2 = 0) THEN lower(w[i]) ELSE w[i]]

NoResult == [ok |-> FALSE, detail |-> "none", sql |-> <<>>]

\* ------------------------------------------------------------------------
\* The orchestrator: data
\* ------------------------------------------------------------------------

\* org_ctx.allowed_schemas, in the order the organisation lists them
AllowedSchemas == <<"db", "dw">>

\* QueryExecutionContext.max_linhas (default)
DefaultMaxLinhas == 100

\* create_session(ttl_minutes=10)
TTL_MINUTES == 10

\* the statements generate_sql and correct_sql return (parse_sql output)
LLMStatements ==
    { <<"s", "e", "l", "e", "c", "t", " ", "*", " ", "f", "r", "o", "m", " ", "T", "1", " ", "l", "i", "m", "i", "t", " ", "5", ";">>,
      <<"s", "e", "l", "e", "c", "t", " ", "*", " ", "f", "r", "o", "m", " ", "t", "9", ";">>,
      <<"D", "r", "O", "p", " ", "t", "a", "b", "l", "e", " ", "T", "1", ";">> }

\* concurrent request slots, and the bounds of a run
Requests == {"r1", "r2"}

\* org_ctx.org_id of the requests a slot serves: the two slots serve users of
\* two organisations
RequestOrg == [r \in Requests |-> IF r = "r1" THEN "o1" ELSE "o2"]

MaxStarts == 3

MaxSessions == 1

MaxTime == 20

TickSteps == {10}

\* the fields QueryExecutionContext declares (dtos/query/context.py)
QueryExecutionContextFields ==
    { "pergunta", "max_linhas", "enrich", "clarification_id", "clarifications",
      "conversation_history", "schema_used", "sql_generated", "sql_executed",
      "sql_candidates", "colunas", "dados", "row_count", "duration_ms",
      "insights_text", "chart_spec", "started_at", "completed_at" }

None == "None"

\* no rows fetched yet (dados defaults to None)
NoRows == [schema |-> None, sql |-> <<>>]

\* a fresh QueryExecutionContext
NewCtx ==
    [pergunta |-> <<>>, clarifications |-> <<>>,
     schema_used |-> None, sql_generated |-> <<>>, sql_executed |-> <<>>,
     dados |-> NoRows, insights_text |-> None]

\* nothing was handed to the database yet
NoExec == [n |-> 0, sql |-> <<>>, raw |-> <<>>, schema |-> None]

NoResponse == [status |-> "none"]

\* an exception leaving execute_query, or a schema attempt
Failure(exc, detail) == [status |-> "failure", exc |-> exc, detail |-> detail]

\* the questions of new requests, as lists of words
Questions == { <<"q1">> }

\* the pergunta field of a request that answers a clarification
AnswerText == <<"a">>

\* the clarifications of an answer: key/value pairs in insertion order
Clarifications ==
    { << <<"extra", "x">>, <<"time_period", "today">> >>,
      << <<"other", "">>, <<"scope", "by_city">> >> }

\* build_clarified_question's phrases for the known periods and scopes
time_period_map ==
    ("today" :> "de hoje") @@ ("yesterday" :> "de ontem") @@
    ("last_week" :> "da última semana") @@ ("last_month" :> "do último mês") @@
    ("last_year" :> "do último ano") @@ ("this_month" :> "deste mês") @@
    ("this_year" :> "deste ano")

scope_map ==
    ("all" :> "todos") @@ ("by_product" :> "por produto") @@
    ("by_region" :> "por região") @@ ("by_customer" :> "por cliente") @@
    ("by_category" :> "por categoria")

\* dict.get(key): the value, or "" (falsy) when the key is absent
DictGet(d, key) ==
    IF \E i \in DOMAIN d : d[i][1] = key
    THEN d[CHOOSE i \in DOMAIN d : d[i][1] = key][2]
    ELSE ""

\* m.get(k, k)
MapGet(m, k) == IF k \in DOMAIN m THEN m[k] ELSE k

RECURSIVE OtherValues(_)
OtherValues(d) ==
    IF d = <<>> THEN <<>>
    ELSE IF Head(d)[1] \notin {"time_period", "scope"} /\ Head(d)[2] # ""
    THEN <<Head(d)[2]>> \o OtherValues(Tail(d))
    ELSE OtherValues(Tail(d))

\* build_clarified_question: the parts that " ".join puts together, in order
build_clarified_question(original_question, clarifications) ==
    original_question
    \o (IF DictGet(clarifications, "time_period") # ""
        THEN <<MapGet(time_period_map, DictGet(clarifications, "time_period"))>> ELSE <<>>)
    \o (IF DictGet(clarifications, "scope") # ""
        THEN <<MapGet(scope_map, DictGet(clarifications, "scope"))>> ELSE <<>>)
    \o OtherValues(clarifications)

\* the threshold _execute_on_schema passes to analyze_intent, in tenths (0.5)
CONFIDENCE_THRESHOLD == 5

\* what parse_json returns for the intent analysis: confidence in tenths,
\* every question with its options
IntentData ==
    { [confidence |-> 9, is_clear |-> TRUE, schema_mismatch |-> TRUE, missing_data |-> <<"m">>,
       questions |-> << [id |-> "alternatives", options |-> <<"s1", "s2">>] >>],
      [confidence |-> 0, is_clear |-> FALSE, schema_mismatch |-> TRUE, missing_data |-> <<>>,
       questions |-> <<>>],
      [confidence |-> 4, is_clear |-> TRUE, schema_mismatch |-> FALSE, missing_data |-> <<>>,
       questions |-> << [id |-> "period", options |-> <<"o1">>] >>],
      [confidence |-> 5, is_clear |-> FALSE, schema_mismatch |-> FALSE, missing_data |-> <<>>,
       questions |-> <<>>],
      [confidence |-> 9, is_clear |-> TRUE, schema_mismatch |-> FALSE, missing_data |-> <<>>,
       questions |-> <<>>] }

analyze_intent_Trusting(data, confidence_threshold) ==
    [confidence |-> data.confidence,
     is_clear |-> data.is_clear,
     schema_mismatch |-> data.schema_mismatch,
     missing_data |-> data.missing_data,
     questions |-> data.questions,
     known |-> TRUE]

\* analyze_intent: the threshold decides is_clear (line 62), whatever the
\* classifier wrote under is_clear
analyze_intent(data, confidence_threshold) ==
    [confidence |-> data.confidence,
     is_clear |-> data.confidence >= confidence_threshold,
     schema_mismatch |-> data.schema_mismatch,
     missing_data |-> data.missing_data,
     questions |-> data.questions,
     known |-> TRUE]

\* no intent analysis in hand
NoIntent ==
    [confidence |-> 0, is_clear |-> FALSE, schema_mismatch |-> FALSE,
     missing_data |-> <<>>, questions |-> <<>>, known |-> FALSE]

\* generate_sql was not called
NoGen == [question |-> <<>>, schema |-> None]

IdleRequest ==
    [pc |-> "idle", flow |-> None, cid |-> 0, order |-> <<>>, idx |-> 0,
     session |-> None, ctx |-> NewCtx, raw |-> None, sql_seguro |-> None,
     last_error |-> None, resp |-> NoResponse,
     ngen |-> 0, ncorr |-> 0, exec |-> NoExec, errs |-> <<>>, late |-> FALSE,
     intent |-> NoIntent, nai |-> 0, gen |-> NoGen, events |-> <<>>]

VARIABLES sql, npieces, out, g_db, g_max, call, ret,
          store, next_id, now, rq, audit, consumed, started,
          SCHEMA_INDEX_CACHE, SCHEMA_INDEX_TTL, clock, org_allowed, idx_calls

\* the arguments of a pipeline-stage call and what it returned
pvars == <<call, ret>>

\* the schema-token-index cache, the clock it reads, the allowed-schema list
\* of the organisation and the get_schema_index_for_org calls under way
cvars == <<SCHEMA_INDEX_CACHE, SCHEMA_INDEX_TTL, clock, org_allowed, idx_calls>>

gvars == <<sql, npieces, out, g_db, g_max, call, ret,
           SCHEMA_INDEX_CACHE, SCHEMA_INDEX_TTL, clock, org_allowed, idx_calls>>

svars == <<store, next_id, now, rq, audit, consumed, started>>

vars == <<sql, npieces, out, g_db, g_max, call, ret, store, next_id, now, rq, audit, consumed, started,
          SCHEMA_INDEX_CACHE, SCHEMA_INDEX_TTL, clock, org_allowed, idx_calls>>

\* settings.SCHEMA_INDEX_MAX_AGE, in seconds
SCHEMA_INDEX_MAX_AGE == 300

\* the organisation whose requests are followed
Org == "o1"

\* the threads that serve the organisation's requests
Callers == {"t1", "t2"}

\* no index: the value of idx before a build.  An index carries, besides the
\* token sets, the identity of its build: the time its builder read on entry
NoIndex == [index |-> << >>, stamp |-> 0]

\* a thread outside get_schema_index_for_org
IdleCall ==
    [pc |-> "idle", now |-> 0, allowed |-> << >>, idx |-> NoIndex, result |-> NoIndex,
     entry |-> FALSE, ttl |-> 0, queried |-> FALSE, order |-> << >>]

\* time.time() at start-up: far above SCHEMA_INDEX_MAX_AGE
ClockStart == 2 * SCHEMA_INDEX_MAX_AGE

\* the module-level dicts are empty and no call is under way
CacheIdle ==
    /\ SCHEMA_INDEX_CACHE = << >>
    /\ SCHEMA_INDEX_TTL = << >>
    /\ clock = ClockStart
    /\ org_allowed = << >>
    /\ idx_calls = [t \in Callers |-> IdleCall]

\* the service before any request: no session, no audit row.  audit[r] holds
\* the rows the request in progress on worker r has appended: the table is
\* append-only and the service never reads it
ServiceInit ==
    /\ store = << >>
    /\ next_id = 1
    /\ now = 0
    /\ rq = [r \in Requests |-> IdleRequest]
    /\ audit = [r \in Requests |-> {}]
    /\ consumed = {}
    /\ started = 0
    /\ CacheIdle

\* no stage call under way
NoCall == [fn |-> "none"]

NoRet == [fn |-> "none"]

StageIdle ==
    /\ call = NoCall
    /\ ret = NoRet

GuardIdle ==
    /\ sql = <<>>
    /\ npieces = 0
    /\ out = NoResult
    /\ g_db = "db"
    /\ g_max = 100
    /\ StageIdle

GuardInit == GuardIdle /\ ServiceInit

\* the caller assembles the statement
AppendPiece(p) ==
    /\ out = NoResult
    /\ npieces < MaxPieces
    /\ sql' = sql \o p
    /\ npieces' = npieces + 1
    /\ UNCHANGED <<out, g_db, g_max>>
    /\ UNCHANGED pvars
    /\ UNCHANGED svars
    /\ UNCHANGED cvars

\* one call proteger_sql_singledb(sql, catalog, db_name=schema, max_linhas)
Validate(schema, max_linhas) ==
    /\ out = NoResult
    /\ out' = proteger_sql_singledb(sql, CatalogOf[schema], SchemaName[schema], max_linhas)
    /\ g_db' = schema
    /\ g_max' = max_linhas
    /\ UNCHANGED <<sql, npieces>>
    /\ UNCHANGED pvars
    /\ UNCHANGED svars
    /\ UNCHANGED cvars

GuardNext ==
    \/ \E p \in Pieces : AppendPiece(p)
    \/ \E c \in GuardCalls : Validate(c[1], c[2])

\* the guardrail on every text of at most MaxPieces pieces
SpecGuard == GuardInit /\ [][GuardNext]_vars

\* ---------------------------------------------------------------------
\* Stage 3: voting and validation of SQL candidates (sql_validator.py)
\* ---------------------------------------------------------------------

\* the index of the first "--" of s, or 0
RECURSIVE FindDashes(_, _)
FindDashes(s, i) ==
    IF i >= Len(s) THEN 0
    ELSE IF s[i] = "-" /\ s[i + 1] = "-" THEN i
    ELSE FindDashes(s, i + 1)

\* sql.split("--")[0]
BeforeComment(s) ==
    IF FindDashes(s, 1) = 0 THEN s ELSE SubSeq(s, 1, FindDashes(s, 1) - 1)

\* the end of the run of non-space characters that starts at i
RECURSIVE WordEnd(_, _)
WordEnd(s, i) ==
    IF i > Len(s) \/ IsSpace(s[i]) THEN i - 1 ELSE WordEnd(s, i + 1)

\* str.split(): the maximal runs of non-space characters, from position i on
RECURSIVE SplitFrom(_, _)
SplitFrom(s, i) ==
    IF i > Len(s) THEN <<>>
    ELSE IF IsSpace(s[i]) THEN SplitFrom(s, i + 1)
    ELSE <<SubSeq(s, i, WordEnd(s, i))>> \o SplitFrom(s, WordEnd(s, i) + 1)

str_split(s) == SplitFrom(s, 1)

\* " ".join(words)
RECURSIVE JoinSpace(_)
JoinSpace(words) ==
    IF words = <<>> THEN <<>>
    ELSE IF Len(words) = 1 THEN words[1]
    ELSE words[1] \o <<" ">> \o JoinSpace(Tail(words))

\* s.rstrip(";")
RECURSIVE RStripSemicolons(_)
RStripSemicolons(s) ==
    IF s # <<>> /\ s[Len(s)] = ";" THEN RStripSemicolons(SubSeq(s, 1, Len(s) - 1)) ELSE s

_normalize_sql(s) ==
    str_lower(RStripSemicolons(JoinSpace(str_split(BeforeComment(s)))))

\* Python's  w in s  for strings
Contains(s, w) ==
    \E i \in 1..(Len(s) - Len(w) + 1) : SubSeq(s, i, i + Len(w) - 1) = w

\* the statements the three generation calls may return
CandidateSqls ==
    { <<"S", "E", "L", "E", "C", "T", " ", "a">>,
      <<"s", "e", "l", "e", "c", "t", " ", " ", "a", ";", " ", "-", "-", "n", "o">>,
      <<"s", "e", "l", "e", "c", "t", " ", "b">>,
      <<"s", "e", "l", "e", "c", "t", " ", "u", "s", "e", "r", ";">> }

\* the rules of the validation call
ValidationResults ==
    { [must_include |-> <<>>, must_not |-> <<>>],
      [must_include |-> <<>>, must_not |-> << <<"N", "O", " ", "d", "r", "o", "p">> >>],
      [must_include |-> << <<"t", "h", "e", " ", "u", "s", "e", "r">> >>, must_not |-> <<>>],
      [must_include |-> << <<"i", "d">> >>, must_not |-> <<>>] }

\* _normalize_sql and validate_sql_against_rules on the statements and rules
\* above, each computed once
NormalOf == [t \in CandidateSqls |-> _normalize_sql(t)]

\* the index of the majority winner: the first-seen normalised text with the
\* most votes (Counter.most_common(1)), and of its candidates the first with
\* the lowest temperature (min)
WinnerIndex(candidates) ==
    LET norm  == [i \in DOMAIN candidates |-> NormalOf[candidates[i].sql]]
        votes == [i \in DOMAIN candidates |->
                     Cardinality({j \in DOMAIN candidates : norm[j] = norm[i]})]
        first == CHOOSE i \in DOMAIN candidates :
                     /\ \A j \in DOMAIN candidates : votes[j] <= votes[i]
                     /\ \A j \in 1..(i - 1) : votes[j] < votes[i]
        group == {j \in DOMAIN candidates : norm[j] = norm[first]}
    IN  CHOOSE i \in group :
            \A j \in group :
                \/ candidates[i].temperature < candidates[j].temperature
                \/ candidates[i].temperature = candidates[j].temperature /\ i <= j

VoteCount(candidates, w) ==
    LET norm == [i \in DOMAIN candidates |-> NormalOf[candidates[i].sql]]
    IN  Cardinality({j \in DOMAIN candidates : norm[j] = norm[w]})

vote_best_sql_FirstOfGroup(candidates) ==
    LET norm == [i \in DOMAIN candidates |-> NormalOf[candidates[i].sql]]
        best == WinnerIndex(candidates)
        w    == CHOOSE i \in DOMAIN candidates :
                    /\ norm[i] = norm[best]
                    /\ \A j \in 1..(i - 1) : norm[j] # norm[i]
    IN  [fn |-> "vote_best_sql", index |-> w, winner |-> candidates[w],
         vote_count |-> VoteCount(candidates, w)]

\* vote_best_sql: (winner, vote_count); index is the winner's place in the list
vote_best_sql(candidates) ==
    LET w == WinnerIndex(candidates)
    IN  [fn |-> "vote_best_sql", index |-> w, winner |-> candidates[w],
         vote_count |-> VoteCount(candidates, w)]

\* validate_sql_against_rules
validate_sql_against_rules(text, validation) ==
    LET sql_lower == str_lower(text)
    IN  /\ \A p \in DOMAIN validation.must_not :
              \A word \in Range(str_split(str_lower(validation.must_not[p]))) :
                  ~Contains(sql_lower, word)
        /\ \A p \in DOMAIN validation.must_include :
              \E word \in Range(str_split(str_lower(validation.must_include[p]))) :
                  /\ Len(word) > 3
                  /\ Contains(sql_lower, word)

PassesRules ==
    [t \in CandidateSqls, v \in ValidationResults |-> validate_sql_against_rules(t, v)]

\* a confidence is a fraction <<numerator, denominator>>; <<0, 0>> is None
NoConfidence == <<0, 0>>

Half == <<1, 2>>

select_best_candidate_WinnerOnly(candidates, validation, min_consensus) ==
    LET v == vote_best_sql(candidates)
    IN  [fn |-> "select_best_candidate", index |-> v.index,
         result |-> [v.winner EXCEPT !.confidence = <<v.vote_count, Len(candidates)>>,
                                     !.validation_passed =
                                         PassesRules[v.winner.sql, validation]]]

\* select_best_candidate: the candidate returned, as the call leaves it
select_best_candidate(candidates, validation, min_consensus) ==
    LET v             == vote_best_sql(candidates)
        has_consensus == v.vote_count >= min_consensus
        winner_valid  == PassesRules[v.winner.sql, validation]
        winner        == [v.winner EXCEPT !.confidence = <<v.vote_count, Len(candidates)>>,
                                          !.validation_passed = winner_valid]
        passing       == {i \in DOMAIN candidates :
                             /\ candidates[i].sql # v.winner.sql
                             /\ PassesRules[candidates[i].sql, validation]}
        alt           == CHOOSE i \in passing : \A j \in passing : i <= j
    IN  IF has_consensus /\ winner_valid
        THEN [fn |-> "select_best_candidate", index |-> v.index, result |-> winner]
        ELSE IF passing # {}
        THEN [fn |-> "select_best_candidate", index |-> alt,
              result |-> [candidates[alt] EXCEPT !.confidence = Half,
                                                 !.validation_passed = TRUE]]
        ELSE [fn |-> "select_best_candidate", index |-> v.index, result |-> winner]

\* temperatures, in hundredths: 0.0, 0.1, 0.15 (sql_generator.py 105-107)
Temperatures == {0, 10, 15}

SQLCandidates ==
    [sql : CandidateSqls, temperature : Temperatures,
     confidence : {NoConfidence}, validation_passed : {FALSE}]

\* the longest candidate list
MaxCandidates == 3

CandidateLists == UNION {[1..n -> SQLCandidates] : n \in 1..MaxCandidates}

\* generate_sql_with_consistency passes min_consensus=2
MIN_CONSENSUS == 2

VoteInit ==
    /\ \E c \in CandidateLists : \E v \in ValidationResults :
           call = [fn |-> "select", candidates |-> c, validation |-> v,
                   min_consensus |-> MIN_CONSENSUS]
    /\ ret = NoRet
    /\ sql = <<>>
    /\ npieces = 0
    /\ out = NoResult
    /\ g_db = "db"
    /\ g_max = 100
    /\ ServiceInit

VoteBestSql ==
    /\ ret = NoRet
    /\ ret' = vote_best_sql(call.candidates)
    /\ UNCHANGED <<sql, npieces, out, g_db, g_max, call>>
    /\ UNCHANGED svars
    /\ UNCHANGED cvars

SelectBestCandidate ==
    /\ ret = NoRet
    /\ ret' = select_best_candidate(call.candidates, call.validation, call.min_consensus)
    /\ UNCHANGED <<sql, npieces, out, g_db, g_max, call>>
    /\ UNCHANGED svars
    /\ UNCHANGED cvars

VoteNext == VoteBestSql \/ SelectBestCandidate

\* the voting stage on every list of at most MaxCandidates candidates
SpecVote == VoteInit /\ [][VoteNext]_vars

\* every write/DDL word, in every letter case, between every prefix and suffix
WordsInit ==
    /\ \E w \in KeywordTexts : \E c \in CaseStyles : \E a \in Prefixes : \E b \in Suffixes :
           sql = a \o InCase(w, c) \o b
    /\ npieces = 0
    /\ out = NoResult
    /\ g_db = "db"
    /\ g_max = 100
    /\ StageIdle
    /\ ServiceInit

WordsNext == \E c \in GuardCalls : Validate(c[1], c[2])

SpecWords == WordsInit /\ [][WordsNext]_vars

\* qualified and quoted table references: the qualifiers a statement may
\* write before a table name (with their dot)
Qualifiers ==
    { <<>>,
      <<"d", "b", ".">>,
      <<"D", "B", ".">>,
      <<"e", "x", "t", ".">>,
      <<"i", "n", "f", "o", "r", "m", "a", "t", "i", "o", "n", "_", "s", "c", "h", "e", "m", "a", ".">>,
      <<"S", "y", "s", ".">> }

TableNames == { <<"T", "1">>, <<"t", "9">> }

QuoteStyles == { <<>>, <<BACKTICK>> }

\* qualifier.table with each name part inside the quote q
QuotedRef(qual, tb, q) ==
    IF qual = <<>> THEN q \o tb \o q
    ELSE q \o SubSeq(qual, 1, Len(qual) - 1) \o q \o <<".">> \o q \o tb \o q

TableRefs ==
    {QuotedRef(qual, tb, q) : qual \in Qualifiers, tb \in TableNames, q \in QuoteStyles}

RefSeparators == { <<",", " ">>, <<" ", "j", "o", "i", "n", " ">> }

SelectFrom == <<"s", "e", "l", "e", "c", "t", " ", "*", " ", "f", "r", "o", "m", " ">>

\* statements that read from one table reference or from two
RefsInit ==
    /\ \/ \E a \in TableRefs : sql = SelectFrom \o a
       \/ \E a \in TableRefs : \E sep \in RefSeparators : \E b \in TableRefs :
              sql = SelectFrom \o a \o sep \o b
    /\ npieces = 0
    /\ out = NoResult
    /\ g_db = "db"
    /\ g_max = 100
    /\ StageIdle
    /\ ServiceInit

RefsNext == \E c \in GuardCalls : Validate(c[1], c[2])

SpecRefs == RefsInit /\ [][RefsNext]_vars

\* ------------------------------------------------------------------------
\* The clarification store (ClarificationRepository)
\* ------------------------------------------------------------------------

Remove(st, id) == [i \in DOMAIN st \ {id} |-> st[i]]

\* create_session: the row added under a fresh id
create_session_NoTTL(st, id, org_id, question, schema, t) ==
    st @@ (id :> [org_id |-> org_id,
                  original_question |-> question, schema_name |-> schema,
                  created_at |-> t, expires_at |-> t])

create_session(st, id, org_id, question, schema, t) ==
    st @@ (id :> [org_id |-> org_id,
                  original_question |-> question, schema_name |-> schema,
                  created_at |-> t, expires_at |-> t + TTL_MINUTES])

get_session_LateBoundary(st, id, t) ==
    IF id \notin DOMAIN st
    THEN [result |-> "Clarification session not found", session |-> None, store |-> st]
    ELSE IF st[id].expires_at <= t
    THEN [result |-> "Clarification session expired", session |-> None, store |-> Remove(st, id)]
    ELSE [result |-> "ok", session |-> st[id], store |-> st]

\* get_session: the outcome, the session returned and the store left behind
get_session(st, id, t) ==
    IF id \notin DOMAIN st
    THEN [result |-> "Clarification session not found", session |-> None, store |-> st]
    ELSE IF st[id].expires_at < t
    THEN [result |-> "Clarification session expired", session |-> None, store |-> Remove(st, id)]
    ELSE [result |-> "ok", session |-> st[id], store |-> st]

delete_session_Noop(st, id) == st

\* delete_session: idempotent
delete_session(st, id) == IF id \in DOMAIN st THEN Remove(st, id) ELSE st

\* ------------------------------------------------------------------------
\* The orchestrator (QueryService)
\* ------------------------------------------------------------------------

\* [preferred] + [s for s in allowed_schemas if s != preferred]
TryOrder(preferred) ==
    <<preferred>> \o SelectSeq(AllowedSchemas, LAMBDA x : x # preferred)

log_query_Propagating(rows, row, write_ok) ==
    [rows |-> IF write_ok THEN rows \cup {row} ELSE rows, raised |-> ~write_ok]

\* AuditRepository.log_query: the row is added when the database write
\* succeeds; an exception of the write is logged and swallowed
log_query(rows, row, write_ok) ==
    [rows |-> IF write_ok THEN rows \cup {row} ELSE rows, raised |-> FALSE]

\* audit_repo.log_from_context: skipped on an incomplete context (a statement
\* that is None or empty, or no schema)
log_from_context(rows, ctx, write_ok) ==
    IF ctx.sql_executed = <<>> \/ ctx.schema_used = None
    THEN [rows |-> rows, raised |-> FALSE]
    ELSE log_query(rows, [schema_used |-> ctx.schema_used, sql_text |-> ctx.sql_executed],
                   write_ok)

\* _build_response: reads ctx.chart_base64 on every path (lines 544, 550)
_build_response(ctx) ==
    IF "chart_base64" \notin QueryExecutionContextFields
    THEN Failure("AttributeError", "chart_base64")
    ELSE [status |-> "success", sql |-> ctx.sql_executed, rows |-> ctx.dados,
          schema_used |-> ctx.schema_used, insights |-> ctx.insights_text]

\* the second proteger_sql_singledb call, on the corrected statement (line 425)
RevalidateCorrected_Trusting(sql2, schema) == Return(sql2)

RevalidateCorrected(sql2, schema) ==
    proteger_sql_singledb(sql2, CatalogOf[schema], SchemaName[schema], DefaultMaxLinhas)

\* an exception inside a schema attempt: the loop of _execute_new_question
\* tags it and goes on, and raises the last one after the last schema; in the
\* clarification flow it leaves execute_query
Fail_FirstError(q, exc, detail) ==
    LET tagged == [schema |-> q.ctx.schema_used, detail |-> detail]
        errs1  == Append(q.errs, tagged)
    IN  IF q.flow = "new"
        THEN IF q.idx < Len(q.order)
             THEN [q EXCEPT !.pc = "attempt", !.idx = q.idx + 1,
                            !.raw = None, !.sql_seguro = None,
                            !.last_error = tagged, !.errs = errs1]
             ELSE [q EXCEPT !.pc = "done", !.last_error = tagged,
                            !.errs = errs1,
                            !.resp = Failure("HTTPException", errs1[1])]
        ELSE [q EXCEPT !.pc = "done", !.resp = Failure(exc, detail)]

Fail(q, exc, detail) ==
    LET tagged == [schema |-> q.ctx.schema_used, detail |-> detail]
    IN  IF q.flow = "new"
        THEN IF q.idx < Len(q.order)
             THEN [q EXCEPT !.pc = "attempt", !.idx = q.idx + 1,
                            !.raw = None, !.sql_seguro = None,
                            !.last_error = tagged, !.errs = Append(q.errs, tagged)]
             ELSE [q EXCEPT !.pc = "done", !.last_error = tagged,
                            !.errs = Append(q.errs, tagged),
                            !.resp = Failure("HTTPException", tagged)]
        ELSE [q EXCEPT !.pc = "done", !.resp = Failure(exc, detail)]

\* the results of analyze_intent as _execute_on_schema calls it (lines 327-331)
Intents == {analyze_intent(d, CONFIDENCE_THRESHOLD) : d \in IntentData}

SchemaError_NoSuggestions(intent) ==
    [status |-> "schema_error",
     missing_data |-> intent.missing_data,
     suggestions |-> <<>>,
     confidence |-> intent.confidence]

\* the schema_error response (lines 336-342)
SchemaError(intent) ==
    [status |-> "schema_error",
     missing_data |-> intent.missing_data,
     suggestions |-> IF intent.questions # <<>> THEN intent.questions[1].options ELSE <<>>,
     confidence |-> intent.confidence]

\* the needs_clarification response (lines 469-476)
NeedsClarification(intent, id) ==
    [status |-> "needs_clarification", clarification_id |-> id,
     questions |-> intent.questions, confidence |-> intent.confidence]

\* execute_query without clarification_id: _execute_new_question begins
StartNew(r, preferred, pergunta) ==
    /\ rq[r].pc \in {"idle", "done"}
    /\ started < MaxStarts
    /\ started' = started + 1
    /\ rq' = [rq EXCEPT ![r] = [IdleRequest EXCEPT !.pc = "attempt", !.flow = "new",
                                   !.ctx.pergunta = pergunta,
                                   !.order = TryOrder(preferred), !.idx = 1,
                                   !.events = <<"started", "selecting_schema">>]]
    /\ audit' = [audit EXCEPT ![r] = {}]
    /\ UNCHANGED <<store, next_id, now, consumed>>
    /\ UNCHANGED gvars

\* the request after a log_from_context call: an exception of the call would
\* be one more failure of the attempt; otherwise the request goes on as next
AfterAudit(q, logged, next) ==
    IF logged.raised THEN Fail(q, "Exception", "audit") ELSE next

\* _execute_on_schema up to the intent decision (lines 307-347)
AnalyzeIntent(r, intent) ==
    LET q      == rq[r]
        schema == q.order[q.idx]
        ctx1   == [q.ctx EXCEPT !.schema_used = schema]
    IN  /\ q.pc = "attempt"
        /\ IF intent.schema_mismatch
           THEN /\ \E write_ok \in BOOLEAN :
                   \E logged \in {log_from_context(audit[r], ctx1, write_ok)} :
                       /\ rq' = [rq EXCEPT ![r] = AfterAudit(
                                    [q EXCEPT !.ctx = ctx1, !.nai = q.nai + 1,
                                              !.events = @ \o <<"analyzing_intent">>], logged,
                                    [q EXCEPT !.pc = "done", !.ctx = ctx1,
                                              !.intent = intent, !.nai = q.nai + 1,
                                              !.events = @ \o <<"analyzing_intent", "completed">>,
                                              !.resp = SchemaError(intent)])]
                       /\ audit' = [audit EXCEPT ![r] = logged.rows]
                /\ UNCHANGED <<store, next_id>>
           ELSE IF ~intent.is_clear
           THEN /\ next_id <= MaxSessions
                /\ store' = create_session(store, next_id, RequestOrg[r], q.ctx.pergunta, schema, now)
                /\ next_id' = next_id + 1
                /\ \E write_ok \in BOOLEAN :
                   \E logged \in {log_from_context(audit[r], ctx1, write_ok)} :
                       /\ rq' = [rq EXCEPT ![r] = AfterAudit(
                                    [q EXCEPT !.ctx = ctx1, !.nai = q.nai + 1,
                                              !.events = @ \o <<"analyzing_intent">>], logged,
                                    [q EXCEPT !.pc = "done", !.ctx = ctx1,
                                              !.intent = intent, !.nai = q.nai + 1,
                                              !.events = @ \o <<"analyzing_intent", "completed">>,
                                              !.resp = NeedsClarification(intent, next_id)])]
                       /\ audit' = [audit EXCEPT ![r] = logged.rows]
           ELSE /\ rq' = [rq EXCEPT ![r] = [q EXCEPT !.pc = "generate", !.ctx = ctx1,
                                               !.intent = intent, !.nai = q.nai + 1,
                                               !.events = @ \o <<"analyzing_intent",
                                                                  "generating_sql">>,
                                               !.exec = NoExec]]
                /\ UNCHANGED <<store, next_id, audit>>
        /\ UNCHANGED <<now, consumed, started>>
        /\ UNCHANGED gvars

\* the connection or the catalog raises, before the analyzing_intent event,
\* or analyze_intent raises, after it
AnalyzeIntentFails(r) ==
    LET q == rq[r]
    IN  /\ q.pc = "attempt"
        /\ \E emitted \in {<<>>, <<"analyzing_intent">>} :
               rq' = [rq EXCEPT ![r] =
                        Fail([q EXCEPT !.ctx.schema_used = q.order[q.idx], !.nai = q.nai + 1,
                                       !.events = @ \o emitted],
                             "Exception", "analyze_intent")]
        /\ UNCHANGED <<store, next_id, now, audit, consumed, started>>
        /\ UNCHANGED gvars

\* execute_query with a clarification_id: _execute_clarification begins
StartClarification(r, cid, clarifications) ==
    /\ rq[r].pc \in {"idle", "done"}
    /\ started < MaxStarts
    /\ cid \in 0..(next_id - 1)
    /\ started' = started + 1
    /\ rq' = [rq EXCEPT ![r] = [IdleRequest EXCEPT !.pc = "get_session", !.flow = "clar",
                                   !.ctx.pergunta = AnswerText,
                                   !.ctx.clarifications = clarifications,
                                   !.cid = cid, !.late = (cid \in consumed),
                                   !.events = <<"started">>]]
    /\ audit' = [audit EXCEPT ![r] = {}]
    /\ UNCHANGED <<store, next_id, now, consumed>>
    /\ UNCHANGED gvars

\* clarification_repo.get_session and the use of session.schema_name
ClarifiedQuestion_OwnQuestion(session, ctx) ==
    build_clarified_question(ctx.pergunta, ctx.clarifications)

\* the question _execute_clarification builds (lines 222-225)
ClarifiedQuestion(session, ctx) ==
    build_clarified_question(session.original_question, ctx.clarifications)

GetSession(r) ==
    LET q == rq[r]
        g == get_session(store, q.cid, now)
    IN  /\ q.pc = "get_session"
        /\ store' = g.store
        /\ rq' = [rq EXCEPT ![r] =
                    IF g.result = "ok"
                    THEN [q EXCEPT !.pc = "generate", !.session = g.session,
                                   !.order = <<g.session.schema_name>>, !.idx = 1,
                                   !.ctx.pergunta =
                                       ClarifiedQuestion(g.session, q.ctx),
                                   !.ctx.schema_used = g.session.schema_name,
                                   !.events = @ \o <<"processing_clarification",
                                                      "generating_sql">>]
                    ELSE [q EXCEPT !.pc = "done", !.resp = Failure("HTTPException", g.result)]]
        /\ UNCHANGED <<next_id, now, audit, consumed, started>>
        /\ UNCHANGED gvars

\* generate_sql returns a statement (lines 248, 358)
GenerateSql(r, text) ==
    LET q == rq[r]
    IN  /\ q.pc = "generate"
        /\ rq' = [rq EXCEPT ![r] = [q EXCEPT !.pc = "protect", !.raw = text,
                                       !.intent = NoIntent,
                                       !.gen = [question |-> q.ctx.pergunta,
                                                schema |-> q.ctx.schema_used],
                                       !.ngen = q.ngen + 1, !.ctx.sql_generated = text,
                                       !.events = @ \o <<"executing_sql">>]]
        /\ UNCHANGED <<store, next_id, now, audit, consumed, started>>
        /\ UNCHANGED gvars

\* generate_sql raises
GenerateSqlFails(r) ==
    LET q == rq[r]
    IN  /\ q.pc = "generate"
        /\ rq' = [rq EXCEPT ![r] =
                    Fail([q EXCEPT !.ngen = q.ngen + 1, !.intent = NoIntent,
                                   !.gen = [question |-> q.ctx.pergunta,
                                            schema |-> q.ctx.schema_used]],
                         "Exception", "generate_sql")]
        /\ UNCHANGED <<store, next_id, now, audit, consumed, started>>
        /\ UNCHANGED gvars

\* _execute_sql_with_retry: the first proteger_sql_singledb call (line 404)
Protect(r) ==
    /\ rq[r].pc = "protect"
    /\ \E q \in {rq[r]} : \E sql0 \in {q.raw} : \E schema \in {q.ctx.schema_used} :
       \E v \in {proteger_sql_singledb(sql0, CatalogOf[schema], SchemaName[schema],
                                       DefaultMaxLinhas)} :
        /\ rq' = [rq EXCEPT ![r] =
                    IF v.ok THEN [q EXCEPT !.pc = "execute", !.sql_seguro = v.sql]
                    ELSE Fail(q, "HTTPException", v.detail)]
        /\ UNCHANGED <<store, next_id, now, audit, consumed, started>>
        /\ UNCHANGED gvars

\* what executar_sql_readonly_on_conn was handed
Handed(q, n) ==
    [n |-> n, sql |-> q.sql_seguro, raw |-> q.raw, schema |-> q.ctx.schema_used]

\* lines 428-435: the context after a successful execution
Executed(q) ==
    [q.ctx EXCEPT !.sql_executed = q.sql_seguro,
                  !.dados = [schema |-> q.ctx.schema_used, sql |-> q.sql_seguro]]

\* the first executar_sql_readonly_on_conn call (line 415); the database
\* accepts the statement or raises
Execute(r, accepted) ==
    LET q == rq[r]
    IN  /\ q.pc = "execute"
        /\ rq' = [rq EXCEPT ![r] =
                    IF accepted
                    THEN [q EXCEPT !.pc = "enrich", !.exec = Handed(q, 1), !.ctx = Executed(q)]
                    ELSE [q EXCEPT !.pc = "correct", !.exec = Handed(q, 1)]]
        /\ UNCHANGED <<store, next_id, now, audit, consumed, started>>
        /\ UNCHANGED gvars

\* correct_sql returns a statement (line 419)
CorrectSql(r, text) ==
    LET q == rq[r]
    IN  /\ q.pc = "correct"
        /\ rq' = [rq EXCEPT ![r] = [q EXCEPT !.pc = "reprotect", !.raw = text,
                                       !.ncorr = q.ncorr + 1]]
        /\ UNCHANGED <<store, next_id, now, audit, consumed, started>>
        /\ UNCHANGED gvars

\* correct_sql raises
CorrectSqlFails(r) ==
    LET q == rq[r]
    IN  /\ q.pc = "correct"
        /\ rq' = [rq EXCEPT ![r] = Fail([q EXCEPT !.ncorr = q.ncorr + 1], "Exception", "correct_sql")]
        /\ UNCHANGED <<store, next_id, now, audit, consumed, started>>
        /\ UNCHANGED gvars

\* the corrected statement is validated (line 425)
Reprotect(r) ==
    /\ rq[r].pc = "reprotect"
    /\ \E q \in {rq[r]} : \E sql2 \in {q.raw} : \E schema \in {q.ctx.schema_used} :
       \E v \in {RevalidateCorrected(sql2, schema)} :
        /\ rq' = [rq EXCEPT ![r] =
                    IF v.ok THEN [q EXCEPT !.pc = "reexecute", !.sql_seguro = v.sql]
                    ELSE Fail(q, "HTTPException", v.detail)]
        /\ UNCHANGED <<store, next_id, now, audit, consumed, started>>
        /\ UNCHANGED gvars

\* the second executar_sql_readonly_on_conn call (line 426)
Reexecute(r, accepted) ==
    LET q == rq[r]
    IN  /\ q.pc = "reexecute"
        /\ rq' = [rq EXCEPT ![r] =
                    IF accepted
                    THEN [q EXCEPT !.pc = "enrich", !.exec = Handed(q, 2), !.ctx = Executed(q)]
                    ELSE Fail([q EXCEPT !.exec = Handed(q, 2)], "Exception", "execute")]
        /\ UNCHANGED <<store, next_id, now, audit, consumed, started>>
        /\ UNCHANGED gvars

\* enrichment_service.enrich_results when ctx.enrich, after the enriching
\* event; its failures are swallowed
Enrich(r, insights) ==
    LET q == rq[r]
    IN  /\ q.pc = "enrich"
        /\ \E emitted \in {<<>>, <<"enriching">>} :
               /\ insights # None => emitted # <<>>
               /\ rq' = [rq EXCEPT ![r] = [q EXCEPT !.pc = "respond",
                                               !.ctx.insights_text = insights,
                                               !.events = @ \o emitted]]
        /\ UNCHANGED <<store, next_id, now, audit, consumed, started>>
        /\ UNCHANGED gvars

\* new question: _build_response inside the attempt, then the audit row and
\* the return (lines 386, 164-174)
RespondNew(r) ==
    LET q  == rq[r]
        rs == _build_response(q.ctx)
    IN  /\ q.pc = "respond"
        /\ q.flow = "new"
        /\ IF rs.status = "success"
           THEN \E write_ok \in BOOLEAN :
                \E logged \in {log_from_context(audit[r], q.ctx, write_ok)} :
                    /\ rq' = [rq EXCEPT ![r] = AfterAudit(q, logged,
                                                [q EXCEPT !.pc = "done", !.resp = rs,
                                                          !.events = @ \o <<"completed">>])]
                    /\ audit' = [audit EXCEPT ![r] = logged.rows]
           ELSE /\ rq' = [rq EXCEPT ![r] = Fail(q, rs.exc, rs.detail)]
                /\ UNCHANGED audit
        /\ UNCHANGED <<store, next_id, now, consumed, started>>
        /\ UNCHANGED gvars

\* clarification answer: delete_session, the audit row, the completed event,
\* _build_response (lines 276-290)
RespondClarification(r) ==
    LET q  == rq[r]
        rs == _build_response(q.ctx)
    IN  /\ q.pc = "respond"
        /\ q.flow = "clar"
        /\ store' = delete_session(store, q.cid)
        /\ consumed' = consumed \cup {q.cid}
        /\ \E write_ok \in BOOLEAN :
           \E logged \in {log_from_context(audit[r], q.ctx, write_ok)} :
               /\ audit' = [audit EXCEPT ![r] = logged.rows]
               /\ rq' = [rq EXCEPT ![r] = AfterAudit(q, logged,
                            IF rs.status = "success"
                            THEN [q EXCEPT !.pc = "done", !.resp = rs,
                                           !.events = @ \o <<"completed">>]
                            ELSE Fail([q EXCEPT !.events = @ \o <<"completed">>],
                                      rs.exc, rs.detail))]
        /\ UNCHANGED <<next_id, now, started>>
        /\ UNCHANGED gvars

\* time passes; the clock is only ever compared with stored sessions, so
\* time that passes while none is stored is not counted
Tick(d) ==
    /\ DOMAIN store # {}
    /\ now + d <= MaxTime
    /\ now' = now + d
    /\ UNCHANGED <<store, next_id, rq, audit, consumed, started>>
    /\ UNCHANGED gvars

\* the steps of a clarification-answer request
ClarificationStep(r) ==
    \/ \E c \in 0..MaxSessions : \E a \in Clarifications : StartClarification(r, c, a)
    \/ GetSession(r)
    \/ \E t \in LLMStatements : GenerateSql(r, t)
    \/ GenerateSqlFails(r)
    \/ Protect(r)
    \/ \E a \in BOOLEAN : Execute(r, a)
    \/ \E t \in LLMStatements : CorrectSql(r, t)
    \/ CorrectSqlFails(r)
    \/ Reprotect(r)
    \/ \E a \in BOOLEAN : Reexecute(r, a)
    \/ \E i \in {None, "insights"} : Enrich(r, i)
    \/ RespondClarification(r)

\* the steps of a new-question request that a clarification answer has not
NewQuestionStep(r) ==
    \/ \E p \in Range(AllowedSchemas) : \E t \in Questions : StartNew(r, p, t)
    \/ \E i \in Intents : AnalyzeIntent(r, i)
    \/ AnalyzeIntentFails(r)
    \/ RespondNew(r)

Init == GuardIdle /\ ServiceInit

\* one worker: requests of both flows are served one after the other
Next ==
    \/ \E d \in TickSteps : Tick(d)
    \/ NewQuestionStep("r1")
    \/ ClarificationStep("r1")

Spec == Init /\ [][Next]_vars

\* two workers answer clarifications while a session, created by an earlier
\* new-question request, is stored
ConcurrentInit ==
    /\ GuardIdle
    /\ \E s \in Range(AllowedSchemas) : \E t \in Questions :
           store = create_session(<< >>, 1, RequestOrg["r1"], t, s, 0)
    /\ next_id = 2
    /\ now = 0
    /\ rq = [r \in Requests |-> IdleRequest]
    /\ audit = [r \in Requests |-> {}]
    /\ consumed = {}
    /\ started = 0
    /\ CacheIdle

ConcurrentNext ==
    \/ \E d \in TickSteps : Tick(d)
    \/ \E r \in Requests : ClarificationStep(r)

SpecConcurrent == ConcurrentInit /\ [][ConcurrentNext]_vars

\* ------------------------------------------------------------------------
\* Reading of a statement used to state the properties
\* ------------------------------------------------------------------------

\* the maximal runs of word characters of s, lower-cased, left to right
RECURSIVE WordList(_, _)
WordList(s, i) ==
    IF i > Len(s) THEN <<>>
    ELSE IF IsWordChar(s[i])
         THEN LET e == IdentEnd(s, i)
              IN  <<str_lower(SubSeq(s, i, e - 1))>> \o WordList(s, e)
         ELSE WordList(s, i + 1)

WordSet(s) == Range(WordList(s, 1))

\* the ten write/DDL words
WriteDDLWords ==
    { <<"i", "n", "s", "e", "r", "t">>, <<"u", "p", "d", "a", "t", "e">>,
      <<"d", "e", "l", "e", "t", "e">>, <<"m", "e", "r", "g", "e">>,
      <<"a", "l", "t", "e", "r">>, <<"d", "r", "o", "p">>,
      <<"c", "r", "e", "a", "t", "e">>, <<"t", "r", "u", "n", "c", "a", "t", "e">>,
      <<"g", "r", "a", "n", "t">>, <<"r", "e", "v", "o", "k", "e">> }

HasWriteDDLWord(s) == WordSet(s) \cap WriteDDLWords # {}

LimitWord == <<"l", "i", "m", "i", "t">>

\* a table reference written at k: name, or qualifier.name, each optionally
\* quoted; e is the index after it, 0 when there is none
TableRefAt(s, k) ==
    LET a1 == SkipQuote(s, k)
        b1 == IdentEnd(s, a1)
        c1 == SkipQuote(s, b1)
        a2 == SkipQuote(s, c1 + 1)
        b2 == IdentEnd(s, a2)
    IN  IF b1 = a1 THEN [e |-> 0, db |-> NoDb, tb |-> <<>>]
        ELSE IF c1 <= Len(s) /\ s[c1] = "." /\ b2 > a2
        THEN [e |-> SkipQuote(s, b2), db |-> str_lower(SubSeq(s, a1, b1 - 1)),
              tb |-> str_lower(SubSeq(s, a2, b2 - 1))]
        ELSE [e |-> c1, db |-> NoDb, tb |-> str_lower(SubSeq(s, a1, b1 - 1))]

\* the comma-separated list of table references that starts at k
RECURSIVE TableList(_, _)
TableList(s, k) ==
    LET r == TableRefAt(s, k)
        c == SkipSpaces(s, r.e)
    IN  IF r.e = 0 THEN {}
        ELSE {[db |-> r.db, tb |-> r.tb]} \cup
             (IF c <= Len(s) /\ s[c] = "," THEN TableList(s, SkipSpaces(s, c + 1)) ELSE {})

\* the tables a statement reads from: the lists after the words FROM and JOIN
TablesReadFrom(s) ==
    UNION { TableList(s, SkipSpaces(s, i + 4)) :
            i \in { j \in 1..Len(s) :
                     /\ \/ MatchesAt(s, j, <<"f", "r", "o", "m">>)
                        \/ MatchesAt(s, j, <<"j", "o", "i", "n">>)
                     /\ WordBoundary(s, j)
                     /\ j + 4 <= Len(s)
                     /\ IsSpace(s[j + 4]) } }

\* max_linhas as it is written in a LIMIT clause
LimitText == (7 :> <<"7">>) @@ (100 :> <<"1", "0", "0">>)

Validated == out # NoResult

Rejected(d) == ~out.ok /\ out.detail = d /\ out.sql = <<>>

\* ------------------------------------------------------------------------
\* Properties of the guardrail
\* ------------------------------------------------------------------------

\* C1: a text that contains one of the ten write/DDL words as a whole word,
\* in any letter case, is rejected with the write/DDL error and no SQL is
\* returned, whatever the schema, the catalog, the row limit and the text
\* around the word.
C1_WriteDDLRejected ==
    (Validated /\ HasWriteDDLWord(sql)) => Rejected("WriteDDL")

\* a keyword in mixed case inside a valid SELECT with a known table was rejected
C1_Witness ==
    /\ Validated
    /\ HasWriteDDLWord(sql)
    /\ sql # str_lower(sql)
    /\ TablesReadFrom(sql) = {[db |-> NoDb, tb |-> <<"t", "1">>]}
    /\ Rejected("WriteDDL")

\* C3: a statement that reads from a table absent from the catalog (compared
\* in lower case), with no write/DDL word and no foreign-schema reference, is
\* rejected with the table-not-found error, however the table is introduced
\* in the FROM clause.
C3_UnknownTableRejected ==
    LET reads == TablesReadFrom(sql)
        own   == {NoDb, str_lower(SchemaName[g_db])}
        known == {str_lower(k) : k \in CatalogOf[g_db]}
    IN  ( /\ Validated
          /\ ~HasWriteDDLWord(sql)
          /\ \A r \in reads : r.db \in own
          /\ \E r \in reads : r.tb \notin known )
        => Rejected("TableNotFound")

\* C4: an accepted statement without the word LIMIT comes back with exactly
\* one LIMIT, followed by max_linhas; an accepted statement that has a LIMIT
\* comes back with the same words (the statement itself, at most a terminator
\* added).
C4_LimitInjected ==
    LET wi == WordList(sql, 1)
        wo == WordList(out.sql, 1)
        at == {i \in 1..Len(wo) : wo[i] = LimitWord}
    IN  (Validated /\ out.ok) =>
            IF LimitWord \notin Range(wi)
            THEN /\ Cardinality(at) = 1
                 /\ \A i \in at : i < Len(wo) /\ wo[i + 1] = LimitText[g_max]
            ELSE /\ wo = wi
                 /\ out.sql \in {sql, sql \o <<";">>}

\* a statement on a known table, without LIMIT, was accepted
C4_Witness ==
    /\ Validated
    /\ out.ok
    /\ LimitWord \notin WordSet(sql)
    /\ TablesReadFrom(sql) # {}
    /\ LimitWord \in WordSet(out.sql)

\* C5: validating an accepted output again, with the same catalog, schema and
\* row limit, accepts it and returns it unchanged.
C5_Idempotent ==
    (Validated /\ out.ok) =>
        proteger_sql_singledb(out.sql, CatalogOf[g_db], SchemaName[g_db], g_max) = out

\* ------------------------------------------------------------------------
\* Properties of the orchestrator and the clarification store
\* ------------------------------------------------------------------------

NotFound == Failure("HTTPException", "Clarification session not found")

Expired == Failure("HTTPException", "Clarification session expired")

\* C2: every statement handed to executar_sql_readonly_on_conn is what
\* proteger_sql_singledb returns for the statement of the attempt (the
\* generated one, or the corrected one after a failure) with the catalog and
\* schema of the attempt; a corrected statement the guardrail rejects is never
\* executed.
C2_ExecutedIsValidated ==
    [][ \A r \in Requests :
            (rq'[r].exec # rq[r].exec /\ rq'[r].exec.n > 0) =>
                LET e == rq'[r].exec
                IN  /\ e.schema = rq[r].order[rq[r].idx]
                    /\ proteger_sql_singledb(e.raw, CatalogOf[e.schema],
                                             SchemaName[e.schema], DefaultMaxLinhas)
                           = Return(e.sql)
      ]_vars

\* a corrected statement, different from the generated one, was executed
C2_Witness ==
    \E r \in Requests :
        /\ rq[r].exec.n = 2
        /\ rq[r].exec.raw # rq[r].ctx.sql_generated
        /\ rq[r].ctx.sql_executed = rq[r].exec.sql

\* C6: a clarification answer that starts after its clarification_id was
\* consumed fails at get_session with "not found" and neither generates nor
\* executes SQL.
C6_ConsumedThenNotFound ==
    \A r \in Requests :
        (rq[r].flow = "clar" /\ rq[r].late /\ rq[r].pc # "get_session") =>
            /\ rq[r].pc = "done"
            /\ rq[r].resp = NotFound
            /\ rq[r].ngen = 0
            /\ rq[r].exec = NoExec

\* a second answer to a consumed session was refused
C6_Witness ==
    \E r \in Requests :
        /\ rq[r].flow = "clar"
        /\ rq[r].late
        /\ rq[r].cid # 0
        /\ rq[r].resp = NotFound

\* C7: get_session on a stored session whose expires_at is before the current
\* time fails with "expired" and deletes the session; on a stored session
\* that is not past its expiry it returns the session and leaves the store
\* alone; on an absent id it fails with "not found", and a deleted id never
\* comes back.
C7_ExpiredSessionLookup ==
    [][ /\ \A r \in Requests :
             (rq[r].pc = "get_session" /\ rq'[r].pc # "get_session") =>
                 IF rq[r].cid \notin DOMAIN store
                 THEN rq'[r].resp = NotFound /\ store' = store
                 ELSE IF store[rq[r].cid].expires_at < now
                 THEN /\ rq'[r].resp = Expired
                      /\ rq[r].cid \notin DOMAIN store'
                 ELSE /\ rq'[r].pc = "generate"
                      /\ rq'[r].session = store[rq[r].cid]
                      /\ store' = store
        /\ \A id \in 1..MaxSessions :
             (id < next_id /\ id \notin DOMAIN store) => id \notin DOMAIN store'
      ]_vars

\* an expired session was reported as expired and is gone
C7_Witness ==
    \E r \in Requests :
        /\ rq[r].flow = "clar"
        /\ rq[r].resp = Expired
        /\ rq[r].cid \notin DOMAIN store
        /\ rq[r].cid < next_id

\* C8: a stored, unexpired session is deleted only by a clarification answer
\* that returns a Success response; an answer that fails leaves it stored.
C8_DeletedOnlyOnSuccess ==
    [][ \A id \in DOMAIN store :
            (id \notin DOMAIN store' /\ ~(store[id].expires_at < now)) =>
                \E r \in Requests :
                    /\ rq[r].pc # "done"
                    /\ rq'[r].pc = "done"
                    /\ rq'[r].resp.status = "success"
      ]_vars

\* C9: of two clarification answers with the same clarification_id that are
\* in flight together, at most one is past get_session.
C9_NoDoubleServe ==
    \A r1 \in Requests : \A r2 \in Requests \ {r1} :
        ~ ( /\ rq[r1].flow = "clar" /\ rq[r2].flow = "clar"
            /\ rq[r1].cid = rq[r2].cid
            /\ rq[r1].pc \notin {"idle", "get_session", "done"}
            /\ rq[r2].pc \notin {"idle", "get_session", "done"} )

\* C10: a new question with try-order [A, B] whose attempt on A failed and
\* whose attempt on B executed its SQL ends with a Success response built
\* from B's execution.
C10_FallbackSuccess ==
    \A r \in Requests :
        LET q == rq[r]
        IN  ( /\ q.flow = "new"
              /\ q.pc = "done"
              /\ Len(q.order) = 2
              /\ Len(q.errs) >= 1
              /\ q.errs[1].schema = q.order[1]
              /\ q.exec.n > 0
              /\ q.exec.schema = q.order[2]
              /\ q.ctx.dados = [schema |-> q.order[2], sql |-> q.exec.sql] )
            => /\ q.resp.status = "success"
               /\ q.resp.schema_used = q.order[2]
               /\ q.resp.sql = q.exec.sql
               /\ q.resp.rows = q.ctx.dados

LowConfidenceStep(r) ==
    /\ rq[r].pc = "attempt"
    /\ rq'[r].nai = rq[r].nai + 1
    /\ rq'[r].intent.known
    /\ ~rq'[r].intent.schema_mismatch
    /\ rq'[r].intent.confidence < CONFIDENCE_THRESHOLD

\* what that step does: one new session with the question, the schema being
\* tried and a ten-minute expiry, and a needs_clarification response with
\* the session's id that ends the request
OneSessionAndHalt(r) ==
    /\ \E id \in DOMAIN store' \ DOMAIN store :
          /\ DOMAIN store' = DOMAIN store \cup {id}
          /\ \A j \in DOMAIN store : store'[j] = store[j]
          /\ store'[id].original_question = rq[r].ctx.pergunta
          /\ store'[id].schema_name = rq[r].order[rq[r].idx]
          /\ store'[id].expires_at = now + TTL_MINUTES
          /\ rq'[r].resp.status = "needs_clarification"
          /\ rq'[r].resp.clarification_id = id
    /\ rq'[r].pc = "done"

C14_OneCorrectionPerRequest ==
    \A r \in Requests : rq[r].ncorr <= 1

\* C15: in the new-question flow a failed schema attempt moves the request
\* to the next schema of the try-order and does not end it; the request ends
\* in failure only when every schema of the order has failed, with a single
\* failure whose message is the error of the last schema, tagged with that
\* schema, and no earlier schema's error.
C15_LastTaggedError ==
    \A r \in Requests :
        rq[r].flow = "new" =>
            /\ rq[r].pc # "done" =>
                  /\ Len(rq[r].errs) = rq[r].idx - 1
                  /\ rq[r].resp = NoResponse
            /\ (rq[r].pc = "done" /\ rq[r].resp.status = "failure") =>
                  /\ rq[r].idx = Len(rq[r].order)
                  /\ Len(rq[r].errs) = Len(rq[r].order)
                  /\ \A i \in DOMAIN rq[r].errs : rq[r].errs[i].schema = rq[r].order[i]
                  /\ rq[r].resp.exc = "HTTPException"
                  /\ rq[r].resp.detail = rq[r].errs[Len(rq[r].errs)]
                  /\ rq[r].resp.detail.schema = rq[r].order[Len(rq[r].order)]
            /\ (rq[r].pc = "done" /\ rq[r].resp.status # "failure") =>
                  Len(rq[r].errs) = rq[r].idx - 1

\* both schemas failed, with different errors, and the request has ended
C15_Witness ==
    \E r \in Requests :
        /\ rq[r].flow = "new"
        /\ rq[r].pc = "done"
        /\ rq[r].resp.status = "failure"
        /\ Len(rq[r].errs) = 2
        /\ rq[r].errs[1].detail # rq[r].errs[2].detail
        /\ rq[r].resp.detail.schema = rq[r].order[2]

\* the places of the candidates whose normalised text is that of candidate i
GroupOf(candidates, i) ==
    LET norm == [k \in DOMAIN candidates |-> NormalOf[candidates[k].sql]]
    IN  {j \in DOMAIN candidates : norm[j] = norm[i]}

\* C16: vote_best_sql returns a candidate of a group with the most votes
\* under normalisation, the vote count being the size of that group, and
\* within the group one with the lowest temperature; of three candidates at
\* temperatures 0.0, 0.1 and 0.15 with one normalised text, in any order, the
\* winner is the one at 0.0, with three votes.
C16_MajorityLowestTemperature ==
    ret.fn = "vote_best_sql" =>
        LET c == call.candidates
            G == GroupOf(c, ret.index)
        IN  /\ ret.index \in DOMAIN c
            /\ ret.winner = c[ret.index]
            /\ ret.vote_count = Cardinality(G)
            /\ \A i \in DOMAIN c : Cardinality(GroupOf(c, i)) <= ret.vote_count
            /\ \A j \in G : ret.winner.temperature <= c[j].temperature
            /\ ( /\ Len(c) = 3
                 /\ G = {1, 2, 3}
                 /\ {c[i].temperature : i \in 1..3} = {0, 10, 15} )
               => /\ ret.winner.temperature = 0
                  /\ ret.vote_count = 3

\* three spellings of one statement, supplied in the order 0.15, 0.0, 0.1:
\* the second candidate wins with three votes
C16_Witness ==
    /\ ret.fn = "vote_best_sql"
    /\ Len(call.candidates) = 3
    /\ <<call.candidates[1].temperature, call.candidates[2].temperature,
          call.candidates[3].temperature>> = <<15, 0, 10>>
    /\ call.candidates[1].sql # call.candidates[2].sql
    /\ GroupOf(call.candidates, 1) = {1, 2, 3}
    /\ ret.index = 2
    /\ ret.vote_count = 3

\* the places, other than the majority winner's, of the candidates that pass
\* the validation rules
PassingAlternatives(candidates, validation) ==
    {i \in DOMAIN candidates :
        /\ i # vote_best_sql(candidates).index
        /\ PassesRules[candidates[i].sql, validation]}

\* C17: select_best_candidate returns the majority winner, with confidence
\* votes/total, when the vote count reaches min_consensus and the winner
\* passes validate_sql_against_rules; otherwise the first other candidate, in
\* input order, that passes validation, with confidence 0.5; and when there
\* is none, the majority winner again: some candidate is always returned.
C17_SelectBestCandidate ==
    ret.fn = "select_best_candidate" =>
        LET c        == call.candidates
            v        == vote_best_sql(c)
            accepted == /\ v.vote_count >= call.min_consensus
                        /\ PassesRules[v.winner.sql, call.validation]
            passing  == PassingAlternatives(c, call.validation)
        IN  /\ ret.index \in DOMAIN c
            /\ ret.result.sql = c[ret.index].sql
            /\ accepted =>
                  /\ ret.index = v.index
                  /\ ret.result.confidence = <<v.vote_count, Len(c)>>
            /\ (~accepted /\ passing # {}) =>
                  /\ ret.index \in passing
                  /\ \A j \in passing : ret.index <= j
                  /\ ret.result.confidence = Half
            /\ (~accepted /\ passing = {}) =>
                  /\ ret.index = v.index
                  /\ ret.result.confidence = <<v.vote_count, Len(c)>>

\* two votes for a winner that fails validation: another candidate, which
\* passes, is returned with confidence 0.5
C17_Witness ==
    /\ ret.fn = "select_best_candidate"
    /\ vote_best_sql(call.candidates).vote_count >= call.min_consensus
    /\ ~PassesRules[vote_best_sql(call.candidates).winner.sql, call.validation]
    /\ ret.index # vote_best_sql(call.candidates).index
    /\ ret.result.confidence = Half
    /\ ret.result.validation_passed

\* the references of a statement qualified with a schema that is neither the
\* current one nor a system schema
ForeignRefs(s, db_name) ==
    {r \in TablesReadFrom(s) :
        /\ r.db # NoDb
        /\ r.db # str_lower(db_name)
        /\ r.db \notin SYSTEM_SCHEMAS}

\* the tables read from the current schema: unqualified, or qualified with it
InSchemaTables(s, db_name) ==
    {r.tb : r \in {x \in TablesReadFrom(s) : x.db = NoDb \/ x.db = str_lower(db_name)}}

\* C18: a statement (free of write/DDL words) with a table reference
\* qualified with another schema than db_name, letter case aside, is rejected
\* with the multi-DB error unless that qualifier is information_schema,
\* performance_schema, mysql or sys; system-qualified references are accepted
\* without a catalog check of their table, and a reference qualified with
\* db_name counts as a table of the schema: no multi-DB error, and it is
\* checked against the catalog.
C18_QualifiedReferences ==
    (Validated /\ ~HasWriteDDLWord(sql)) =>
        LET db_name == SchemaName[g_db]
            known   == {str_lower(k) : k \in CatalogOf[g_db]}
        IN  /\ ForeignRefs(sql, db_name) # {} => Rejected("MultiDB")
            /\ ForeignRefs(sql, db_name) = {} =>
                  /\ ~Rejected("MultiDB")
                  /\ InSchemaTables(sql, db_name) \subseteq known => out.ok
                  /\ (\E r \in TablesReadFrom(sql) :
                          r.db = str_lower(db_name) /\ r.tb \notin known) => ~out.ok

\* C19: an accepted output holds exactly one statement terminator, as its
\* last character, also when the input ended in a terminator and had no
\* LIMIT.
C19_OneTrailingTerminator ==
    (Validated /\ out.ok) =>
        /\ Cardinality({i \in DOMAIN out.sql : out.sql[i] = ";"}) = 1
        /\ out.sql[Len(out.sql)] = ";"

\* ------------------------------------------------------------------------
\* Schema selection: overlap ranking and the classifier's tie-break
\* ------------------------------------------------------------------------

\* normalize_tokens(pergunta): the lower-cased runs of [a-zA-Z0-9_]
normalize_tokens(p) == WordSet(p)

\* the place of a character in the order of lower-cased names
CharRank(c) ==
    IF c \in Range(DigitChars) THEN CHOOSE i \in 1..10 : DigitChars[i] = c
    ELSE IF c = "_" THEN 11
    ELSE IF c \in Range(LowerChars) THEN 11 + CHOOSE i \in 1..26 : LowerChars[i] = c
    ELSE 0

\* a < b for strings
RECURSIVE StrLess(_, _)
StrLess(a, b) ==
    IF b = <<>> THEN FALSE
    ELSE IF a = <<>> THEN TRUE
    ELSE IF a[1] = b[1] THEN StrLess(Tail(a), Tail(b))
    ELSE CharRank(a[1]) < CharRank(b[1])

\* the score of a schema: len(q_toks & tokens)
OverlapScore(schema_index, pergunta, schema) ==
    Cardinality(normalize_tokens(pergunta) \cap schema_index[schema])

\* (schema, score) comes before (other, score2) in the sort of line 159
RankedBefore(schema_index, pergunta, a, b) ==
    \/ OverlapScore(schema_index, pergunta, a) > OverlapScore(schema_index, pergunta, b)
    \/ /\ OverlapScore(schema_index, pergunta, a) = OverlapScore(schema_index, pergunta, b)
       /\ StrLess(str_lower(a), str_lower(b))

\* rank_schemas_by_overlap(schema_index, pergunta)[0]
RankedFirst(schema_index, pergunta) ==
    CHOOSE a \in DOMAIN schema_index :
        \A b \in DOMAIN schema_index \ {a} : RankedBefore(schema_index, pergunta, a, b)

\* what pick_schema returns when it has no answer
NoPick == <<>>

pick_schema_ExactCase(schemas, llm) ==
    LET candidates == WordList(llm.text, 1)
        hits == {i \in DOMAIN schemas : candidates # <<>> /\ schemas[i] = candidates[1]}
    IN  IF ~llm.ok \/ hits = {} THEN NoPick
        ELSE schemas[CHOOSE i \in hits : \A j \in hits : i <= j]

\* pick_schema: the first allowed schema that equals, letter case aside, the
\* first word of the classifier's response; nothing on an error
pick_schema(schemas, llm) ==
    LET candidates == WordList(llm.text, 1)
        hits == {i \in DOMAIN schemas :
                    candidates # <<>> /\ str_lower(schemas[i]) = candidates[1]}
    IN  IF ~llm.ok \/ hits = {} THEN NoPick
        ELSE schemas[CHOOSE i \in hits : \A j \in hits : i <= j]

\* _select_schema_order: the try-order, and whether pick_schema was called
_select_schema_order(allowed_schemas, schema_index, pergunta, llm) ==
    LET best_by_overlap == RankedFirst(schema_index, pergunta)
        top_score == OverlapScore(schema_index, pergunta, best_by_overlap)
        top_ties  == {x \in DOMAIN schema_index :
                         OverlapScore(schema_index, pergunta, x) = top_score}
        ask       == top_score = 0 \/ Cardinality(top_ties) > 1
        picked    == IF ask THEN pick_schema(allowed_schemas, llm) ELSE NoPick
        preferred == IF picked # NoPick THEN picked ELSE best_by_overlap
    IN  [fn |-> "_select_schema_order",
         order |-> <<preferred>> \o SelectSeq(allowed_schemas, LAMBDA x : x # preferred),
         asked |-> ask]

\* the schemas of an organisation and the table and column names they index
OrgSchemas == << <<"d", "w">>, <<"S", "a", "l", "e", "s">>, <<"d", "b">> >>

OrgSchemaIndex ==
    (<<"d", "w">> :> { <<"o", "r", "d", "e", "r", "s">>, <<"c", "i", "t", "y">> }) @@
    (<<"S", "a", "l", "e", "s">> :> { <<"o", "r", "d", "e", "r", "s">>, <<"t", "o", "t", "a", "l">> }) @@
    (<<"d", "b">> :> { <<"u", "s", "e", "r", "s">> })

\* questions
OrderQuestions ==
    { <<>>, <<"O", "r", "d", "e", "r", "s", "?">>, <<"o", "r", "d", "e", "r", "s", " ", "t", "o", "t", "a", "l">>, <<"c", "i", "t", "y">>, <<"u", "s", "e", "r", "s", ",", " ", "c", "i", "t", "y">>, <<"p", "r", "o", "f", "i", "t">>, <<"T", "O", "T", "A", "L", " ", "o", "r", "d", "e", "r", "s", " ", "b", "y", " ", "c", "i", "t", "y">>, <<"u", "s", "e", "r", "s">> }

\* what call_llm may do: a response text, or an error
LLMOutcomes ==
    { [ok |-> FALSE, text |-> <<>>],
      [ok |-> TRUE, text |-> <<>>],
      [ok |-> TRUE, text |-> <<"d", "w">>],
      [ok |-> TRUE, text |-> <<"S", "A", "L", "E", "S", ".">>],
      [ok |-> TRUE, text |-> <<"D", "b">>],
      [ok |-> TRUE, text |-> <<"t", "h", "e", " ", "d", "w">>],
      [ok |-> TRUE, text |-> <<"x", "x">>],
      [ok |-> TRUE, text |-> <<" ", "s", "a", "l", "e", "s", " ", "d", "w">>] }

OrderInit ==
    /\ \E p \in OrderQuestions : \E l \in LLMOutcomes :
           call = [fn |-> "_select_schema_order", pergunta |-> p, llm |-> l]
    /\ ret = NoRet
    /\ sql = <<>>
    /\ npieces = 0
    /\ out = NoResult
    /\ g_db = "db"
    /\ g_max = 100
    /\ ServiceInit

SelectSchemaOrder ==
    /\ ret = NoRet
    /\ ret' = _select_schema_order(OrgSchemas, OrgSchemaIndex, call.pergunta, call.llm)
    /\ UNCHANGED <<sql, npieces, out, g_db, g_max, call>>
    /\ UNCHANGED svars
    /\ UNCHANGED cvars

OrderNext == SelectSchemaOrder

\* schema selection on every question and classifier outcome
SpecOrder == OrderInit /\ [][OrderNext]_vars

\* the schemas with the highest overlap score
TopSchemas(pergunta) ==
    {a \in Range(OrgSchemas) :
        \A b \in Range(OrgSchemas) :
            OverlapScore(OrgSchemaIndex, pergunta, b) <= OverlapScore(OrgSchemaIndex, pergunta, a)}

\* the overlap leader: of the top schemas the first by name
OverlapLeader(pergunta) ==
    CHOOSE a \in TopSchemas(pergunta) :
        \A b \in TopSchemas(pergunta) \ {a} : StrLess(str_lower(a), str_lower(b))

\* the allowed schemas the classifier's answer names, letter case aside
Answered(llm) ==
    {a \in Range(OrgSchemas) :
        /\ llm.ok
        /\ WordList(llm.text, 1) # <<>>
        /\ str_lower(a) = WordList(llm.text, 1)[1]}

\* C20: _select_schema_order consults pick_schema exactly when the top
\* overlap score is 0 or at least two schemas share it; the preferred schema
\* is then the allowed schema the classifier's answer names, letter case
\* aside and in its original spelling, and the overlap leader (highest score,
\* first by name) when the answer names none or the classifier failed; with a
\* unique positive top score the leader is preferred and the classifier is
\* not called.  The other allowed schemas follow in their order.
C20_SchemaOrder ==
    ret.fn = "_select_schema_order" =>
        LET p      == call.pergunta
            top    == OverlapScore(OrgSchemaIndex, p, OverlapLeader(p))
            ask    == top = 0 \/ Cardinality(TopSchemas(p)) >= 2
        IN  /\ ret.asked = ask
            /\ (ask /\ Answered(call.llm) # {}) => ret.order[1] \in Answered(call.llm)
            /\ (ask /\ Answered(call.llm) = {}) => ret.order[1] = OverlapLeader(p)
            /\ ~ask => ret.order[1] = OverlapLeader(p)
            /\ Tail(ret.order) = SelectSeq(OrgSchemas, LAMBDA x : x # ret.order[1])

\* two schemas tie on a positive score and the classifier's answer, in another
\* letter case, names the one that is not the overlap leader
C20_Witness ==
    /\ ret.fn = "_select_schema_order"
    /\ ret.asked
    /\ Cardinality(TopSchemas(call.pergunta)) = 2
    /\ OverlapScore(OrgSchemaIndex, call.pergunta, OverlapLeader(call.pergunta)) > 0
    /\ ret.order[1] # OverlapLeader(call.pergunta)
    /\ ret.order[1] \in Answered(call.llm)
    /\ ret.order[1] # WordList(call.llm.text, 1)[1]

\* ------------------------------------------------------------------------
\* Intent analysis as a function of the classifier's data
\* ------------------------------------------------------------------------

\* analyze_intent's default threshold, in tenths (0.7)
DEFAULT_CONFIDENCE_THRESHOLD == 7

\* what the classifier may write: any confidence in tenths, with any clarity
\* claim of its own
ClassifierData ==
    [confidence : {0, 3, 4, 5, 6, 7, 8, 10}, is_clear : BOOLEAN,
     schema_mismatch : BOOLEAN, missing_data : {<<>>}, questions : {<<>>}]

IntentInit ==
    /\ \E d \in ClassifierData :
       \E t \in {CONFIDENCE_THRESHOLD, DEFAULT_CONFIDENCE_THRESHOLD} :
           call = [fn |-> "analyze_intent", data |-> d, confidence_threshold |-> t]
    /\ ret = NoRet
    /\ sql = <<>>
    /\ npieces = 0
    /\ out = NoResult
    /\ g_db = "db"
    /\ g_max = 100
    /\ ServiceInit

AnalyzeIntentCall ==
    /\ ret = NoRet
    /\ ret' = [fn |-> "analyze_intent",
               value |-> analyze_intent(call.data, call.confidence_threshold)]
    /\ UNCHANGED <<sql, npieces, out, g_db, g_max, call>>
    /\ UNCHANGED svars
    /\ UNCHANGED cvars

IntentNext == AnalyzeIntentCall

SpecIntent == IntentInit /\ [][IntentNext]_vars

\* C21: the is_clear flag analyze_intent returns is true exactly when the
\* classifier's confidence is at least the threshold, equality included,
\* whatever is_clear the classifier itself wrote.
C21_ClearIffConfident ==
    ret.fn = "analyze_intent" =>
        /\ ret.value.is_clear = (call.data.confidence >= call.confidence_threshold)
        /\ ret.value.confidence = call.data.confidence

\* a confidence equal to the threshold that the classifier called unclear
\* comes back clear
C21_Witness ==
    /\ ret.fn = "analyze_intent"
    /\ call.data.confidence = call.confidence_threshold
    /\ ~call.data.is_clear
    /\ ret.value.is_clear

\* ------------------------------------------------------------------------
\* The schema-token-index cache
\* ------------------------------------------------------------------------

\* how many times the clock advances
MaxCacheTicks == 3

\* the clock advances by half the maximum age
ClockStep == SCHEMA_INDEX_MAX_AGE \div 2

\* the allowed-schema lists the organisation has over time
AllowedLists == { OrgSchemas, << <<"d", "b">> >> }

\* the questions and classifier outcomes of the requests that use the cache
CacheQuestions == { <<"c", "i", "t", "y">>, <<"u", "s", "e", "r", "s">> }

CacheLLMOutcomes == { [ok |-> FALSE, text |-> <<>>], [ok |-> TRUE, text |-> <<"D", "b">>] }

\* build_schema_index: one token set per schema of the list it is given
build_schema_index(allowed_schemas) ==
    [x \in Range(allowed_schemas) |-> OrgSchemaIndex[x]]

\* _SCHEMA_INDEX_TTL.get(org_id, 0)
TtlGet(ttl, org_id) == IF org_id \in DOMAIN ttl THEN ttl[org_id] ELSE 0

Fresh_Inclusive(cache, ttl, org_id, t) ==
    /\ org_id \in DOMAIN cache
    /\ t - TtlGet(ttl, org_id) <= SCHEMA_INDEX_MAX_AGE

\* the test of lines 128-131: an entry exists and is younger than the maximum age
Fresh(cache, ttl, org_id, t) ==
    /\ org_id \in DOMAIN cache
    /\ t - TtlGet(ttl, org_id) < SCHEMA_INDEX_MAX_AGE

\* d[k] = v on a dict
DictSet(d, k, v) == [x \in DOMAIN d \cup {k} |-> IF x = k THEN v ELSE d[x]]

CacheInit ==
    /\ GuardIdle
    /\ store = << >>
    /\ next_id = 1
    /\ now = 0
    /\ rq = [r \in Requests |-> IdleRequest]
    /\ audit = [r \in Requests |-> {}]
    /\ consumed = {}
    /\ started = 0
    /\ SCHEMA_INDEX_CACHE = << >>
    /\ SCHEMA_INDEX_TTL = << >>
    /\ clock = ClockStart
    /\ org_allowed = OrgSchemas
    /\ idx_calls = [t \in Callers |-> IdleCall]

\* lines 127-132: read the clock, test the cache, return the entry on a hit.
\* The caller passes the allowed list it has just read for the organisation
GetSchemaIndex(t) ==
    /\ idx_calls[t].pc = "idle"
    /\ LET c == [IdleCall EXCEPT !.now = clock, !.allowed = org_allowed,
                                 !.entry = Org \in DOMAIN SCHEMA_INDEX_CACHE,
                                 !.ttl = TtlGet(SCHEMA_INDEX_TTL, Org)]
       IN  IF Fresh(SCHEMA_INDEX_CACHE, SCHEMA_INDEX_TTL, Org, clock)
           THEN idx_calls' = [idx_calls EXCEPT ![t] =
                    [c EXCEPT !.pc = "returned", !.result = SCHEMA_INDEX_CACHE[Org]]]
           ELSE idx_calls' = [idx_calls EXCEPT ![t] = [c EXCEPT !.pc = "connect"]]
    /\ UNCHANGED <<SCHEMA_INDEX_CACHE, SCHEMA_INDEX_TTL, clock, org_allowed>>
    /\ UNCHANGED <<sql, npieces, out, g_db, g_max>>
    /\ UNCHANGED pvars
    /\ UNCHANGED svars

\* lines 134-136: connect and build the index
BuildIndex(t) ==
    /\ idx_calls[t].pc = "connect"
    /\ idx_calls' = [idx_calls EXCEPT ![t].pc = "built", ![t].queried = TRUE,
                        ![t].idx = [index |-> build_schema_index(idx_calls[t].allowed),
                                    stamp |-> idx_calls[t].now]]
    /\ UNCHANGED <<SCHEMA_INDEX_CACHE, SCHEMA_INDEX_TTL, clock, org_allowed>>
    /\ UNCHANGED <<sql, npieces, out, g_db, g_max>>
    /\ UNCHANGED pvars
    /\ UNCHANGED svars

\* lines 134-136: the connection or the metadata query raises
BuildIndexFails(t) ==
    /\ idx_calls[t].pc = "connect"
    /\ idx_calls' = [idx_calls EXCEPT ![t].pc = "raised", ![t].queried = TRUE]
    /\ UNCHANGED <<SCHEMA_INDEX_CACHE, SCHEMA_INDEX_TTL, clock, org_allowed>>
    /\ UNCHANGED <<sql, npieces, out, g_db, g_max>>
    /\ UNCHANGED pvars
    /\ UNCHANGED svars

\* line 138: _SCHEMA_INDEX_CACHE[org_id] = idx
StoreIndex(t) ==
    /\ idx_calls[t].pc = "built"
    /\ SCHEMA_INDEX_CACHE' = DictSet(SCHEMA_INDEX_CACHE, Org, idx_calls[t].idx)
    /\ idx_calls' = [idx_calls EXCEPT ![t].pc = "stored"]
    /\ UNCHANGED <<SCHEMA_INDEX_TTL, clock, org_allowed>>
    /\ UNCHANGED <<sql, npieces, out, g_db, g_max>>
    /\ UNCHANGED pvars
    /\ UNCHANGED svars

\* lines 139-141: _SCHEMA_INDEX_TTL[org_id] = now; return idx
StoreTimestamp(t) ==
    /\ idx_calls[t].pc = "stored"
    /\ SCHEMA_INDEX_TTL' = DictSet(SCHEMA_INDEX_TTL, Org, idx_calls[t].now)
    /\ idx_calls' = [idx_calls EXCEPT ![t].pc = "returned", ![t].result = idx_calls[t].idx]
    /\ UNCHANGED <<SCHEMA_INDEX_CACHE, clock, org_allowed>>
    /\ UNCHANGED <<sql, npieces, out, g_db, g_max>>
    /\ UNCHANGED pvars
    /\ UNCHANGED svars

\* _select_schema_order, lines 496-509: the try-order from the index that
\* get_schema_index_for_org returned and the allowed list of the request
OrderFromIndex(t, pergunta, llm) ==
    /\ idx_calls[t].pc = "returned"
    /\ idx_calls' = [idx_calls EXCEPT ![t].pc = "ordered",
                        ![t].order = _select_schema_order(idx_calls[t].allowed,
                                         idx_calls[t].result.index, pergunta, llm).order]
    /\ UNCHANGED <<SCHEMA_INDEX_CACHE, SCHEMA_INDEX_TTL, clock, org_allowed>>
    /\ UNCHANGED <<sql, npieces, out, g_db, g_max>>
    /\ UNCHANGED pvars
    /\ UNCHANGED svars

\* the request is over; the thread serves the next one
EndRequest(t) ==
    /\ idx_calls[t].pc \in {"returned", "ordered", "raised"}
    /\ idx_calls' = [idx_calls EXCEPT ![t] = IdleCall]
    /\ UNCHANGED <<SCHEMA_INDEX_CACHE, SCHEMA_INDEX_TTL, clock, org_allowed>>
    /\ UNCHANGED <<sql, npieces, out, g_db, g_max>>
    /\ UNCHANGED pvars
    /\ UNCHANGED svars

\* time passes
ClockTick ==
    /\ clock < ClockStart + MaxCacheTicks * ClockStep
    /\ clock' = clock + ClockStep
    /\ UNCHANGED <<SCHEMA_INDEX_CACHE, SCHEMA_INDEX_TTL, org_allowed, idx_calls>>
    /\ UNCHANGED <<sql, npieces, out, g_db, g_max>>
    /\ UNCHANGED pvars
    /\ UNCHANGED svars

\* the rows of org_allowed_schemas change: every request reads them anew
ChangeAllowed(l) ==
    /\ l # org_allowed
    /\ org_allowed' = l
    /\ UNCHANGED <<SCHEMA_INDEX_CACHE, SCHEMA_INDEX_TTL, clock, idx_calls>>
    /\ UNCHANGED <<sql, npieces, out, g_db, g_max>>
    /\ UNCHANGED pvars
    /\ UNCHANGED svars

CacheNext ==
    \/ \E t \in Callers : GetSchemaIndex(t)
    \/ \E t \in Callers : BuildIndex(t)
    \/ \E t \in Callers : BuildIndexFails(t)
    \/ \E t \in Callers : StoreIndex(t)
    \/ \E t \in Callers : StoreTimestamp(t)
    \/ \E t \in Callers : EndRequest(t)
    \/ ClockTick

\* concurrent requests of one organisation on the shared cache
SpecCache == CacheInit /\ [][CacheNext]_vars

\* one thread serves the requests of an organisation whose allowed-schema
\* list changes between them
StaleNext ==
    \/ GetSchemaIndex("t1")
    \/ BuildIndex("t1")
    \/ BuildIndexFails("t1")
    \/ StoreIndex("t1")
    \/ StoreTimestamp("t1")
    \/ \E p \in CacheQuestions : \E l \in CacheLLMOutcomes : OrderFromIndex("t1", p, l)
    \/ EndRequest("t1")
    \/ ClockTick
    \/ \E l \in AllowedLists : ChangeAllowed(l)

SpecStale == CacheInit /\ [][StaleNext]_vars

\* no get_schema_index_for_org call is under way
AllReturned == \A t \in Callers : idx_calls[t].pc \in {"idle", "returned", "ordered", "raised"}

\* C22: whenever no call is under way, the timestamp stored for the
\* organisation is that of the build of the index stored for it: index and
\* timestamp come from one build.
C22_IndexAndTimestampOfOneBuild ==
    (AllReturned /\ Org \in DOMAIN SCHEMA_INDEX_CACHE) =>
        /\ Org \in DOMAIN SCHEMA_INDEX_TTL
        /\ SCHEMA_INDEX_TTL[Org] = SCHEMA_INDEX_CACHE[Org].stamp

\* ------------------------------------------------------------------------
\* Classifier calls: attempts and backoff
\* ------------------------------------------------------------------------

\* range(3) in call_llm and call_llm_async
LLM_ATTEMPTS == 3

\* ExecuteLLMNode(max_retries=3)
max_retries == 3

\* what one HTTP attempt may end in: a status, a timeout, another error
HttpOutcomes ==
    [kind : {"status"}, status : {200, 400, 401, 404, 422, 429, 500}]
        \cup { [kind |-> "timeout", status |-> 0], [kind |-> "error", status |-> 0] }

\* the outcomes of the attempts of one call, in order
HttpScripts == [1..3 -> HttpOutcomes]

\* response.raise_for_status() passes
IsSuccess(o) == o.kind = "status" /\ o.status < 400

\* 2 ** attempt
RECURSIVE Pow2(_)
Pow2(n) == IF n = 0 THEN 1 ELSE 2 * Pow2(n - 1)

RECURSIVE call_llm_loop(_, _, _, _)
\* the loop of call_llm from attempt number attempt on (attempt counts from 0),
\* after waited seconds of backoff: every exception is retried until the last
\* attempt
call_llm_loop(fn, responses, attempt, waited) ==
    IF IsSuccess(responses[attempt + 1])
    THEN [fn |-> fn, ok |-> TRUE, attempts |-> attempt + 1, waited |-> waited]
    ELSE IF attempt = LLM_ATTEMPTS - 1
    THEN [fn |-> fn, ok |-> FALSE, attempts |-> attempt + 1, waited |-> waited]
    ELSE call_llm_loop(fn, responses, attempt + 1, waited + Pow2(attempt))

call_llm(responses) == call_llm_loop("call_llm", responses, 0, 0)

\* call_llm_async: the same loop with an awaited sleep
call_llm_async(responses) == call_llm_loop("call_llm_async", responses, 0, 0)

RECURSIVE process_loop(_, _, _)
\* the loop of ExecuteLLMNode.process: statuses 400, 401, 403 and 404 and
\* every error that is neither a status nor a timeout raise at once; other
\* statuses and timeouts are retried until the last attempt
process_loop(responses, attempt, waited) ==
    LET o == responses[attempt + 1]
        raised == [fn |-> "ExecuteLLMNode.process", ok |-> FALSE,
                   attempts |-> attempt + 1, waited |-> waited]
    IN  IF IsSuccess(o)
        THEN [fn |-> "ExecuteLLMNode.process", ok |-> TRUE,
              attempts |-> attempt + 1, waited |-> waited]
        ELSE IF o.kind = "status" /\ o.status \in {400, 401, 403, 404} THEN raised
        ELSE IF o.kind = "error" THEN raised
        ELSE IF attempt < max_retries - 1
        THEN process_loop(responses, attempt + 1, waited + Pow2(attempt))
        ELSE raised

ExecuteLLMNode_process(responses) == process_loop(responses, 0, 0)

LlmInit ==
    /\ \E f \in {"call_llm", "call_llm_async", "ExecuteLLMNode.process"} :
       \E rs \in HttpScripts :
           call = [fn |-> f, responses |-> rs]
    /\ ret = NoRet
    /\ sql = <<>>
    /\ npieces = 0
    /\ out = NoResult
    /\ g_db = "db"
    /\ g_max = 100
    /\ ServiceInit

CallLlm ==
    /\ ret = NoRet
    /\ call.fn = "call_llm"
    /\ ret' = call_llm(call.responses)
    /\ UNCHANGED <<sql, npieces, out, g_db, g_max, call>>
    /\ UNCHANGED svars
    /\ UNCHANGED cvars

CallLlmAsync ==
    /\ ret = NoRet
    /\ call.fn = "call_llm_async"
    /\ ret' = call_llm_async(call.responses)
    /\ UNCHANGED <<sql, npieces, out, g_db, g_max, call>>
    /\ UNCHANGED svars
    /\ UNCHANGED cvars

ExecuteLLMNodeProcess ==
    /\ ret = NoRet
    /\ call.fn = "ExecuteLLMNode.process"
    /\ ret' = ExecuteLLMNode_process(call.responses)
    /\ UNCHANGED <<sql, npieces, out, g_db, g_max, call>>
    /\ UNCHANGED svars
    /\ UNCHANGED cvars

LlmNext == CallLlm \/ CallLlmAsync \/ ExecuteLLMNodeProcess

SpecLlm == LlmInit /\ [][LlmNext]_vars

\* a 4xx-class status other than 429
IsClientError(o) == o.kind = "status" /\ o.status \in 400..499 /\ o.status # 429

\* a timeout, a 5xx-class status or 429
IsTransient(o) ==
    \/ o.kind = "timeout"
    \/ o.kind = "status" /\ (o.status \in 500..599 \/ o.status = 429)

\* C23: a classifier call answered by a 4xx-class status other than 429 fails
\* after that single attempt without any backoff wait; an attempt is followed
\* by another only after a timeout, a 5xx or a 429; a call makes at most 3
\* attempts.
C23_ClientErrorsFailFast ==
    ret # NoRet =>
        /\ IsClientError(call.responses[1]) =>
               (~ret.ok /\ ret.attempts = 1 /\ ret.waited = 0)
        /\ \A i \in 1..(ret.attempts - 1) : IsTransient(call.responses[i])
        /\ ret.attempts <= 3

\* ------------------------------------------------------------------------
\* Audit writes
\* ------------------------------------------------------------------------

\* worker r takes a step that calls log_from_context on a context that
\* holds an executed statement: the return of a schema attempt, or the end of
\* a clarification answer
AuditStep(r) ==
    /\ rq[r].ctx.sql_executed # <<>>
    /\ \/ /\ rq[r].pc = "respond"
          /\ rq'[r].pc # "respond"
          /\ rq[r].flow = "clar" \/ rq'[r].resp.status = "success"
       \/ rq[r].pc = "attempt" /\ rq'[r].pc = "done" /\ rq'[r].intent # NoIntent

\* C24: a failure of the audit write never changes the outcome: at every
\* step that logs a request whose SQL was executed, log_from_context raises
\* under neither outcome of the database write, and the request ends the step
\* in the same state, response included, whether the write succeeded or failed.
C24_AuditIsBestEffort ==
    [][\A r \in Requests : AuditStep(r) =>
          \A write_ok \in BOOLEAN :
              /\ ~log_from_context(audit[r], rq'[r].ctx, write_ok).raised
              /\ AfterAudit(rq[r], log_from_context(audit[r], rq'[r].ctx, write_ok),
                            rq'[r]) = rq'[r]]_vars

\* a clarification answer whose statement was executed and whose audit
\* write failed: the request went on to _build_response all the same
C24_Witness ==
    \E r \in Requests :
        /\ rq[r].pc = "done"
        /\ rq[r].flow = "clar"
        /\ rq[r].ctx.sql_executed # <<>>
        /\ rq[r].resp = Failure("AttributeError", "chart_base64")
        /\ audit[r] = {}

\* C25: every execute_query call that fails, in either flow, ends with an
\* HTTPException carrying a message: no other exception leaves execute_query.
C25_FailuresAreStructured ==
    \A r \in Requests :
        (rq[r].pc = "done" /\ rq[r].resp.status = "failure") =>
            rq[r].resp.exc = "HTTPException"

\* C26: in the new-question flow, once a statement was executed successfully
\* on a schema of the try-order, no later schema is attempted and the request
\* ends with the Success response of that execution: its schema and the
\* statement that was executed.
C26_FirstSuccessEndsRequest ==
    [][\A r \in Requests :
          ( /\ rq[r].flow = "new"
            /\ rq[r].pc \notin {"idle", "done"}
            /\ rq[r].ctx.dados # NoRows ) =>
              /\ rq'[r].idx = rq[r].idx
              /\ rq'[r].pc = "done" =>
                     /\ rq'[r].resp.status = "success"
                     /\ rq'[r].resp.schema_used = rq[r].ctx.dados.schema
                     /\ rq'[r].resp.sql = rq[r].ctx.dados.sql
      ]_vars

\* C27: get_schema_index_for_org returns the cached index without querying
\* the database exactly when an entry for the org exists and is younger than
\* SCHEMA_INDEX_MAX_AGE; otherwise it goes on to rebuild: a successful build
\* is stored, with the time the call read, and returned; a failed build
\* leaves the entry and its timestamp as they were.
C27_CacheHitAndRebuild ==
    [][\A t \in Callers :
          LET c == idx_calls[t]
              d == idx_calls'[t]
          IN  /\ (c.pc = "idle" /\ d.pc # "idle") =>
                     /\ d.pc \in {"returned", "connect"}
                     /\ d.pc = "returned" <=>
                            /\ Org \in DOMAIN SCHEMA_INDEX_CACHE
                            /\ Org \in DOMAIN SCHEMA_INDEX_TTL
                            /\ clock - SCHEMA_INDEX_TTL[Org] < 300
                     /\ d.pc = "returned" =>
                            (d.result = SCHEMA_INDEX_CACHE[Org] /\ ~d.queried)
                     /\ UNCHANGED <<SCHEMA_INDEX_CACHE, SCHEMA_INDEX_TTL>>
              /\ (c.pc = "connect" /\ d.pc = "built") =>
                     /\ d.idx.index = build_schema_index(c.allowed)
                     /\ d.queried
                     /\ UNCHANGED <<SCHEMA_INDEX_CACHE, SCHEMA_INDEX_TTL>>
              /\ (c.pc = "connect" /\ d.pc = "raised") =>
                     UNCHANGED <<SCHEMA_INDEX_CACHE, SCHEMA_INDEX_TTL>>
              /\ (c.pc = "connect") => d.pc \in {"connect", "built", "raised"}
              /\ (c.pc = "built" /\ d.pc # "built") =>
                     /\ d.pc = "stored"
                     /\ SCHEMA_INDEX_CACHE'[Org] = c.idx
              /\ (c.pc = "stored" /\ d.pc # "stored") =>
                     /\ d.pc = "returned"
                     /\ SCHEMA_INDEX_TTL'[Org] = c.now
                     /\ d.result = c.idx
      ]_vars

\* a call that found an entry of age exactly SCHEMA_INDEX_MAX_AGE has
\* rebuilt, stored and returned the index
C27_Witness ==
    \E t \in Callers :
        /\ idx_calls[t].pc = "returned"
        /\ idx_calls[t].entry
        /\ idx_calls[t].now - idx_calls[t].ttl = SCHEMA_INDEX_MAX_AGE
        /\ idx_calls[t].queried
        /\ SCHEMA_INDEX_CACHE[Org] = idx_calls[t].result
        /\ SCHEMA_INDEX_TTL[Org] = idx_calls[t].now

\* C28: every schema of the try-order of a request, the schemas the request
\* goes on to attempt, is one of the allowed schemas the request read for the
\* org, and none appears twice, also when the cached index was built for an
\* earlier allowed list.
C28_OnlyAllowedSchemasTried ==
    \A t \in Callers :
        idx_calls[t].pc = "ordered" =>
            LET order == idx_calls[t].order
            IN  /\ \A i \in DOMAIN order : order[i] \in Range(idx_calls[t].allowed)
                /\ \A i \in DOMAIN order : \A j \in DOMAIN order :
                       order[i] = order[j] => i = j

\* C29: a clarification session is consumed only by the org that created it:
\* a clarification answer that is past get_session, and so builds its question
\* from the session, runs SQL on the session's schema and deletes the session,
\* comes from the org of the session.
C29_SessionOfOwnOrg ==
    \A r \in Requests :
        (rq[r].flow = "clar" /\ rq[r].pc \notin {"idle", "get_session", "done"}) =>
            rq[r].session.org_id = RequestOrg[r]

\* C30: a completed event is emitted only for a request whose SQL was
\* executed successfully and that returns a Success response, and no event
\* follows it: a request that ends in needs_clarification, schema_error or
\* a failure has emitted none.
C30_CompletedOnlyOnSuccess ==
    \A r \in Requests :
        LET events == rq[r].events
        IN  (\E i \in DOMAIN events : events[i] = "completed") =>
                /\ events[Len(events)] = "completed"
                /\ rq[r].ctx.sql_executed # <<>>
                /\ rq[r].pc = "done"
                /\ rq[r].resp.status = "success"

====
